---- MODULE Spec2Model ----
(***************************************************************************)
(* dist-job-scheduler: the relational job queue (claim / heartbeat /       *)
(* complete / fail / reschedule / reap), the worker's runJob state machine *)
(* and the reaper, as implemented in internal/infrastructure/postgres,     *)
(* internal/scheduler and internal/usecase.                                *)
(*                                                                         *)
(* Time is a discrete clock whose unit is TickSeconds (30 s, the reaper's   *)
(* period); a timestamp is the tick it falls in, and the reaper fires at   *)
(* the tick boundaries, so heartbeat_at < cutoff is decided exactly.  The  *)
(* heartbeat ticker (10 s) fires several times per tick: one heartbeat     *)
(* step per task and tick stands for these firings, and it succeeds when   *)
(* one of the writes does.  Every SQL statement is one atomic step (a      *)
(* single UPDATE is atomic per row; FOR UPDATE SKIP LOCKED re-checks the   *)
(* WHERE clause on the locked row version).  A goroutine may be delayed    *)
(* for any time between two of its statements.  Every store write can fail *)
(* with an error, which the code logs and ignores.                         *)
(***************************************************************************)
EXTENDS Integers, FiniteSets, Sequences, TLC

\* ------------------------------------------------------------------ bounds
NumJobs == 2
NumWorkers == 2
MaxTime == 3
MaxCreateTime == 0
MaxClaims == 3
MaxStoreErrors == 1
MaxCrashes == 1
\* the concurrency NewWorker is given: the size of a worker's semaphore
Concurrency == 2
\* the row limit the reaper passes to RescheduleStale and to FailStale (100
\* in the program), scaled down so that NumJobs jobs can exceed it
ReapLimit == 1
\* rows of the schedules table, dispatcher replicas and reaper replicas
NumSchedules == 2
NumDispatchers == 2
NumReapers == 2
\* the row limit the dispatcher passes to ClaimAndFire (100 in the program)
DispatchLimit == 2

\* ------------------------------------------------------- program constants
TickSeconds == 30
HeartbeatTimeoutSec == 30
ReapIntervalSec == 30
BaseDelayMs == 30000
MaxDelayMs == 3600000
DefaultMaxRetries == 3

HeartbeatTimeout == HeartbeatTimeoutSec \div TickSeconds
ReapInterval == ReapIntervalSec \div TickSeconds

JobIds == 1 .. NumJobs
Workers == 1 .. NumWorkers
Slots == 1 .. Concurrency
Users == {"u1"}
SchedIds == 1 .. NumSchedules
Dispatchers == 1 .. NumDispatchers
Reapers == 1 .. NumReapers
NULL == -1

\* inputs of CreateJob: max_retries 0 means "not given"
MaxRetriesInputs == {1}
BackoffInputs == {""}

StatusPending == "pending"
StatusRunning == "running"
StatusCompleted == "completed"
StatusFailed == "failed"
StatusCancelled == "cancelled"
Absent == "absent"
Terminal == {StatusCompleted, StatusFailed, StatusCancelled}

BackoffExponential == "exponential"
BackoffLinear == "linear"

Min(a, b) == IF a < b THEN a ELSE b
CeilDiv(a, b) == (a + b - 1) \div b

RECURSIVE Pow2(_)
Pow2(n) == IF n = 0 THEN 1 ELSE 2 * Pow2(n - 1)

VARIABLES now, jobs, attempts, tasks, procs, reapNext, budget, hist,
          schedules, txs, leaked, reapers

\* the schedules table, the dispatcher replicas' transactions, the row locks
\* of transactions no replica will ever end, and the reaper replicas
replicas == <<schedules, txs, leaked, reapers>>

vars == <<now, jobs, attempts, tasks, procs, reapNext, budget, hist,
          replicas>>

\* a row of the jobs table that has not been inserted yet; completed stands
\* for completed_at IS NOT NULL
AbsentJob ==
  [status |-> Absent, user_id |-> "", retry_count |-> 0, max_retries |-> 0,
   backoff |-> "", scheduled_at |-> NULL, claimed_at |-> NULL,
   claimed_by |-> NULL, heartbeat_at |-> NULL, completed |-> FALSE,
   last_error |-> "", idempotency_key |-> "", schedule_id |-> NULL]

\* an idle slot of a worker's semaphore; a busy slot holds the job snapshot
\* returned by Claim (job, retry_count, max_retries, backoff), the position
\* of runJob (pc: "open" before CreateAttempt, "exec" while the HTTP call
\* is in flight) and the first tick whose heartbeat firings are still to
\* come (hb_next).
\* last_beat and lapsed are history: the tick of the claim or of this task's
\* last successful heartbeat write, and whether a whole tick has ever passed
\* without one.
NoTask ==
  [pc |-> "free", job |-> 0, retry_count |-> 0, max_retries |-> 0,
   backoff |-> "", hb_next |-> NULL, last_beat |-> NULL, lapsed |-> FALSE]

\* a worker process after NewWorker and Start: the context Start was given
\* is live (ctx; "done" once the signal has cancelled it, "exited" once main
\* has returned) and the poll loop holds no claimed job that still waits
\* for a slot of the semaphore (backlog); sem is len(w.sem), the number of
\* slots of the semaphore channel that are taken
NoProc == [ctx |-> "live", backlog |-> {}, sem |-> 0]

\* a row of the schedules table that has not been inserted yet; max_retries
\* and backoff stand for the request template
AbsentSchedule ==
  [user_id |-> "", cron_expr |-> "", max_retries |-> 0, backoff |-> "",
   paused |-> FALSE, next_run_at |-> NULL, last_run_at |-> NULL]

\* a dispatcher replica with no ClaimAndFire call in progress; during a call
\* (pc "fire": in the loop, at selected[i]; pc "commit": after the loop) the
\* transaction holds the rows its SELECT ... FOR UPDATE returned (selected,
\* in the order returned), the jobs it inserted and the schedule rows it
\* updated, which no other transaction sees before the commit, and the
\* time it began at (start: what NOW() is inside it)
NoTx ==
  [pc |-> "idle", selected |-> <<>>, i |-> 0, inserted |-> <<>>,
   updated |-> <<>>, start |-> NULL]

\* a reaper replica between two reap cycles (pc "idle"; "fail" between
\* RescheduleStale and FailStale), the cutoff of its cycle and the tick its
\* ticker fires next (NULL: the replica is not running)
NoReaper == [pc |-> "idle", staleCutoff |-> NULL, next |-> NULL]

\* no schedule, no dispatcher transaction, no reaper replica
InitReplicas ==
  /\ schedules = [s \in SchedIds |-> AbsentSchedule]
  /\ txs = [d \in Dispatchers |-> NoTx]
  /\ leaked = {}
  /\ reapers = [r \in Reapers |-> NoReaper]

\* executor results: transport error (status code 0) or an HTTP status code
Results ==
  {[err |-> TRUE, code |-> 0], [err |-> FALSE, code |-> 200],
   [err |-> FALSE, code |-> 503]}

\* the same with further status codes an endpoint may answer with
StatusCodes == {200, 201, 204, 301, 503}

ResultsAll ==
  {[err |-> TRUE, code |-> 0]} \cup
  {[err |-> FALSE, code |-> c] : c \in StatusCodes}

\* ------------------------------------------------------------ store: jobs

\* the first n rows of E in ascending key order (ORDER BY key ASC LIMIT n);
\* rows with equal keys come in any order
FirstN(E, key, n) ==
  {S \in SUBSET E :
     /\ Cardinality(S) = Min(n, Cardinality(E))
     /\ \A a \in S : \A b \in E \ S : key[a] <= key[b]}

\* the constraint jobs_user_idempotency_key_unique: a row of this user with
\* this key exists
Duplicate_AnyUser(J, user, key) ==
  \E j \in JobIds : J[j].status # Absent /\ J[j].idempotency_key = key

Duplicate(J, user, key) ==
  \E j \in JobIds :
    /\ J[j].status # Absent
    /\ J[j].user_id = user
    /\ J[j].idempotency_key = key

\* JobRepository.Create: INSERT of a pending row with the column defaults; a
\* unique violation (23505) stores nothing and is ErrDuplicateJob
Create(J, j, user, key, sched, maxRetries, backoff) ==
  IF Duplicate(J, user, key) THEN J
  ELSE [J EXCEPT ![j] =
          [AbsentJob EXCEPT !.status = StatusPending, !.user_id = user,
                            !.idempotency_key = key,
                            !.scheduled_at = sched,
                            !.max_retries = maxRetries,
                            !.backoff = backoff]]

\* a sub-select without the status filter: every due row matches
ClaimEligible_AnyStatus(J, t) ==
  {j \in JobIds : J[j].status # Absent /\ J[j].scheduled_at <= t}

\* a sub-select without the scheduled_at filter: every pending row matches
ClaimEligible_IgnoresTime(J, t) ==
  {j \in JobIds : J[j].status = StatusPending}

\* JobRepository.Claim: the rows the sub-select matches
ClaimEligible(J, t) ==
  {j \in JobIds : J[j].status = StatusPending /\ J[j].scheduled_at <= t}

\* JobRepository.Claim: the possible result sets for a limit
ClaimRows(J, t, limit) ==
  LET key == [j \in JobIds |-> J[j].scheduled_at]
  IN FirstN(ClaimEligible(J, t), key, limit)

\* a claim that leaves heartbeat_at unset
Claim_NoHeartbeat(J, w, S, t) ==
  [j \in JobIds |->
     IF j \in S
     THEN [J[j] EXCEPT !.status = StatusRunning, !.claimed_at = t,
                       !.claimed_by = w]
     ELSE J[j]]

\* JobRepository.Claim: the UPDATE applied to the selected rows S
Claim(J, w, S, t) ==
  [j \in JobIds |->
     IF j \in S
     THEN [J[j] EXCEPT !.status = StatusRunning, !.claimed_at = t,
                       !.claimed_by = w, !.heartbeat_at = t]
     ELSE J[j]]

\* a heartbeat without the status filter
UpdateHeartbeat_AnyStatus(J, j, t) ==
  IF J[j].status # Absent THEN [J EXCEPT ![j].heartbeat_at = t] ELSE J

\* a heartbeat that writes nothing
UpdateHeartbeat_NoWrite(J, j, t) == J

\* JobRepository.UpdateHeartbeat
UpdateHeartbeat(J, j, t) ==
  IF J[j].status = StatusRunning
  THEN [J EXCEPT ![j].heartbeat_at = t]
  ELSE J

\* JobRepository.Complete: WHERE id = $1 only
Complete(J, j) ==
  IF J[j].status # Absent
  THEN [J EXCEPT ![j].status = StatusCompleted, ![j].completed = TRUE]
  ELSE J

\* JobRepository.Fail: WHERE id = $1 only
Fail(J, j, lastError) ==
  IF J[j].status # Absent
  THEN [J EXCEPT ![j].status = StatusFailed, ![j].last_error = lastError]
  ELSE J

\* a reschedule that leaves retry_count as it is
Reschedule_NoIncrement(J, j, lastError, retryAt) ==
  IF J[j].status # Absent
  THEN [J EXCEPT ![j].status = StatusPending,
                 ![j].last_error = lastError,
                 ![j].scheduled_at = retryAt,
                 ![j].claimed_at = NULL,
                 ![j].claimed_by = NULL,
                 ![j].heartbeat_at = NULL]
  ELSE J

\* JobRepository.Reschedule: WHERE id = $1 only
Reschedule(J, j, lastError, retryAt) ==
  IF J[j].status # Absent
  THEN [J EXCEPT ![j].status = StatusPending,
                 ![j].retry_count = J[j].retry_count + 1,
                 ![j].last_error = lastError,
                 ![j].scheduled_at = retryAt,
                 ![j].claimed_at = NULL,
                 ![j].claimed_by = NULL,
                 ![j].heartbeat_at = NULL]
  ELSE J

\* a sub-select whose cutoff is one timeout too early
StaleRetryable_LateCutoff(J, cutoff) ==
  {j \in JobIds : /\ J[j].status = StatusRunning
                  /\ J[j].heartbeat_at < cutoff - HeartbeatTimeout
                  /\ J[j].retry_count < J[j].max_retries}

\* JobRepository.RescheduleStale: the rows the sub-select matches
StaleRetryable(J, cutoff) ==
  {j \in JobIds : /\ J[j].status = StatusRunning
                  /\ J[j].heartbeat_at < cutoff
                  /\ J[j].retry_count < J[j].max_retries}

\* JobRepository.RescheduleStale: the possible row sets for a limit
RescheduleStaleRows(J, cutoff, limit) ==
  LET key == [j \in JobIds |-> J[j].heartbeat_at]
  IN FirstN(StaleRetryable(J, cutoff), key, limit)

\* a bulk reschedule that leaves the claim fields as they are
RescheduleStale_KeepsClaim(J, S) ==
  [j \in JobIds |->
     IF j \in S
     THEN [J[j] EXCEPT !.status = StatusPending,
                       !.retry_count = J[j].retry_count + 1,
                       !.last_error = "worker timeout"]
     ELSE J[j]]

\* JobRepository.RescheduleStale: the UPDATE applied to the selected rows S
RescheduleStale(J, S) ==
  [j \in JobIds |->
     IF j \in S
     THEN [J[j] EXCEPT !.status = StatusPending,
                       !.retry_count = J[j].retry_count + 1,
                       !.last_error = "worker timeout",
                       !.claimed_at = NULL,
                       !.claimed_by = NULL,
                       !.heartbeat_at = NULL]
     ELSE J[j]]

\* a sub-select of FailStale without the status filter
StaleExhausted_AnyStatus(J, cutoff) ==
  {j \in JobIds : /\ J[j].status # Absent
                  /\ J[j].heartbeat_at < cutoff
                  /\ J[j].retry_count >= J[j].max_retries}

\* JobRepository.FailStale: the rows the sub-select matches
StaleExhausted(J, cutoff) ==
  {j \in JobIds : /\ J[j].status = StatusRunning
                  /\ J[j].heartbeat_at < cutoff
                  /\ J[j].retry_count >= J[j].max_retries}

\* JobRepository.FailStale: the possible row sets for a limit
FailStaleRows(J, cutoff, limit) ==
  LET key == [j \in JobIds |-> J[j].heartbeat_at]
  IN FirstN(StaleExhausted(J, cutoff), key, limit)

\* JobRepository.FailStale: the UPDATE applied to the selected rows S
FailStale(J, S) ==
  [j \in JobIds |->
     IF j \in S
     THEN [J[j] EXCEPT !.status = StatusFailed,
                       !.last_error = "worker timeout: max retries exceeded"]
     ELSE J[j]]

\* JobRepository.Cancel (interface only in the sources): pending -> cancelled
\* for the owner, otherwise no change
CancelApplies_AnyCaller(J, j, user) == J[j].status = StatusPending

CancelApplies(J, j, user) ==
  J[j].status = StatusPending /\ J[j].user_id = user

Cancel(J, j, user) ==
  IF CancelApplies(J, j, user)
  THEN [J EXCEPT ![j].status = StatusCancelled]
  ELSE J

\* JobRepository.Cancel: the error it returns
CancelResult(J, j, user) ==
  IF CancelApplies(J, j, user) THEN "ok"
  ELSE IF J[j].status = Absent \/ J[j].user_id # user THEN "JobNotFound"
  ELSE "JobNotCancellable"

\* -------------------------------------------------------- store: schedules

\* cron.ParseStandard(expr).Next(t) on the tick clock, for a constant delay
\* and for five-field expressions: 30 s after t, resp. the first full
\* minute after t, resp. no run at all
CronExprs == {"@every 30s", "* * * * *"}

\* an expression ParseStandard accepts (each field is within its range)
\* that no date satisfies: midnight of the 30th of February
NeverFires == "0 0 30 2 *"

\* the zero time.Time, which Schedule.Next returns when it finds no run
\* within five years; it is before every instant of the clock
ZeroTime == NULL - 1

CronNext(expr, t) ==
  IF expr = "@every 30s" THEN t + (30 \div TickSeconds)
  ELSE IF expr = NeverFires THEN ZeroTime
  ELSE ((((t * TickSeconds) \div 60) + 1) * 60) \div TickSeconds

\* ScheduleRepository.Create: INSERT of a row that is not paused and has
\* never run
CreateScheduleRow(S, s, user, expr, maxRetries, backoff, nextRunAt) ==
  [S EXCEPT ![s] =
     [AbsentSchedule EXCEPT !.user_id = user, !.cron_expr = expr,
                            !.max_retries = maxRetries, !.backoff = backoff,
                            !.next_run_at = nextRunAt]]

\* an UPDATE that also moves next_run_at to the time of the request
SetPaused_ResetsNextRun(S, t, s, user, paused) ==
  IF S[s].user_id # "" /\ S[s].user_id = user /\ S[s].paused = ~paused
  THEN [S EXCEPT ![s].paused = paused, ![s].next_run_at = t]
  ELSE S

\* ScheduleRepository.SetPaused: UPDATE schedules SET paused = $3 WHERE
\* id = $1 AND user_id = $2 AND paused = $4 (t is the time of the request)
SetPaused(S, t, s, user, paused) ==
  IF S[s].user_id # "" /\ S[s].user_id = user /\ S[s].paused = ~paused
  THEN [S EXCEPT ![s].paused = paused]
  ELSE S

\* the error ScheduleRepository.SetPaused returns
SetPausedResult(S, s, user, paused) ==
  IF S[s].user_id # "" /\ S[s].user_id = user /\ S[s].paused = ~paused
  THEN "ok"
  ELSE IF S[s].user_id = "" \/ S[s].user_id # user THEN "ScheduleNotFound"
  ELSE IF paused THEN "ScheduleAlreadyPaused"
  ELSE "ScheduleNotPaused"

\* a SELECT without the paused filter: every due row matches
DueSchedules_IgnoresPaused(S, t, locked) ==
  {s \in SchedIds : /\ S[s].user_id # ""
                    /\ S[s].next_run_at <= t
                    /\ s \notin locked}

\* ClaimAndFire, the SELECT: WHERE next_run_at <= NOW() AND NOT paused ...
\* FOR UPDATE SKIP LOCKED leaves out the rows another transaction holds
DueSchedules(S, t, locked) ==
  {s \in SchedIds : /\ S[s].user_id # ""
                    /\ S[s].next_run_at <= t
                    /\ ~S[s].paused
                    /\ s \notin locked}

\* the row sequences the SELECT may return: ORDER BY next_run_at ASC LIMIT
\* $1, rows with equal next_run_at in any order
ClaimScheduleRows(S, t, locked, limit) ==
  LET D == DueSchedules(S, t, locked)
      n == Min(limit, Cardinality(D))
  IN {q \in [1 .. n -> D] :
        /\ \A a, b \in 1 .. n : a # b => q[a] # q[b]
        /\ \A a, b \in 1 .. n :
             a < b => S[q[a]].next_run_at <= S[q[b]].next_run_at
        /\ \A a \in 1 .. n : \A x \in D \ {q[b] : b \in 1 .. n} :
             S[q[a]].next_run_at <= S[x].next_run_at}

\* Dispatcher.computeNext without the loop: the run after next_run_at
computeNext_NoSkip(row, t, late) == CronNext(row.cron_expr, row.next_run_at)

\* the loop of Dispatcher.computeNext: while next.Before(now), take the run
\* after it; t is the tick of time.Now() and late tells whether time.Now()
\* is past the first instant of that tick
Before(next, t, late) == next < t \/ (next = t /\ late)

RECURSIVE SkipMissed(_, _, _, _)
SkipMissed(expr, next, t, late) ==
  IF Before(next, t, late)
  THEN SkipMissed(expr, CronNext(expr, next), t, late)
  ELSE next

\* Dispatcher.computeNext for a row read by ClaimAndFire; the expression of
\* a stored schedule has been parsed by CreateSchedule, so the fallback for
\* an invalid one is never taken
computeNext(row, t, late) ==
  SkipMissed(row.cron_expr, CronNext(row.cron_expr, row.next_run_at), t, late)

\* a key made of the advanced next_run_at
IdempotencyKey_FromNext(id, row, next) ==
  "sched:" \o ToString(id) \o ":" \o ToString(next * TickSeconds)

\* ClaimAndFire: fmt.Sprintf("sched:%s:%d", s.ID, s.NextRunAt.Unix()), for
\* the row as the SELECT returned it; next is what computeNext returned
IdempotencyKey(id, row, next) ==
  "sched:" \o ToString(id) \o ":" \o ToString(row.next_run_at * TickSeconds)

\* ClaimAndFire, the INSERT: a pending job of the schedule's user with the
\* schedule's template, scheduled_at NOW() (the start of the transaction)
FiredJob(id, row, key, start) ==
  [AbsentJob EXCEPT !.status = StatusPending, !.user_id = row.user_id,
                    !.idempotency_key = key, !.scheduled_at = start,
                    !.max_retries = row.max_retries, !.backoff = row.backoff,
                    !.schedule_id = id]

\* the n-th free row of the jobs table
NthAbsent(J, n) ==
  CHOOSE k \in JobIds :
    /\ J[k].status = Absent
    /\ Cardinality({m \in JobIds : J[m].status = Absent /\ m < k}) = n - 1

\* a commit that makes only the first inserted job visible
CommitJobs_FirstOnly(J, inserted) ==
  IF inserted = <<>> THEN J
  ELSE [J EXCEPT ![NthAbsent(J, 1)] = inserted[1]]

\* tx.Commit: the jobs the transaction inserted become visible
CommitJobs(J, inserted) ==
  [j \in JobIds |->
     IF \E n \in 1 .. Len(inserted) : j = NthAbsent(J, n)
     THEN inserted[CHOOSE n \in 1 .. Len(inserted) : j = NthAbsent(J, n)]
     ELSE J[j]]

\* tx.Commit: the UPDATEs of the transaction become visible; last_run_at is
\* NOW(), the start of the transaction
CommitSchedules(S, updated, start) ==
  [s \in SchedIds |->
     IF \E n \in 1 .. Len(updated) : updated[n].id = s
     THEN [S[s] EXCEPT
             !.next_run_at =
               updated[CHOOSE n \in 1 .. Len(updated) :
                         updated[n].id = s].next_run_at,
             !.last_run_at = start]
     ELSE S[s]]

\* ------------------------------------------------------------ store: reads

ErrJobNotFound == "JobNotFound"

\* what a read returns: a value and no error, or an error
Found(v) == [err |-> "", value |-> v]
NotFound == [err |-> ErrJobNotFound]

\* a SELECT without the user_id filter: any user's row is returned
GetByID_AnyUser(J, j, user) ==
  IF J[j].status # Absent THEN Found(J[j]) ELSE NotFound

\* JobRepository.GetByID: WHERE id = $1 AND user_id = $2; scanJob turns
\* pgx.ErrNoRows into ErrJobNotFound
GetByID(J, j, user) ==
  IF J[j].status # Absent /\ J[j].user_id = user THEN Found(J[j])
  ELSE NotFound

\* no cursor: the first page
NoCursor == <<>>

\* ORDER BY scheduled_at DESC, id DESC: row a comes before row b
Precedes(J, a, b) ==
  \/ J[a].scheduled_at > J[b].scheduled_at
  \/ J[a].scheduled_at = J[b].scheduled_at /\ a > b

\* JobRepository.ListJobs: the ids of the first limit rows WHERE user_id = $1
\* [AND status = $2] [AND (scheduled_at, id) < ($3, $4)], in that order
ListJobsRows(J, user, status, cursor, limit) ==
  LET R == {j \in JobIds :
              /\ J[j].status # Absent
              /\ J[j].user_id = user
              /\ status = "" \/ J[j].status = status
              /\ \/ cursor = NoCursor
                 \/ J[j].scheduled_at < cursor[1]
                 \/ J[j].scheduled_at = cursor[1] /\ j < cursor[2]}
      q == CHOOSE f \in [1 .. Cardinality(R) -> R] :
             \A a, b \in 1 .. Cardinality(R) :
               a < b => Precedes(J, f[a], f[b])
  IN [n \in 1 .. Min(limit, Cardinality(R)) |-> q[n]]

\* the page size JobUsecase.ListJobs uses for a requested limit
DefaultPageLimit == 20
MaxPageLimit == 100
PageLimit(limit) ==
  IF limit <= 0 THEN DefaultPageLimit
  ELSE IF limit > MaxPageLimit THEN MaxPageLimit ELSE limit

\* JobUsecase.ListJobs: one row more than the page is fetched; when it is
\* there, the cursor of the next page is made of it and the page is cut.
\* A cursor is the pair (scheduled_at, id) that encodeCursor packs.
ListJobs(J, user, status, cursor, limitIn) ==
  LET limit == PageLimit(limitIn)
      rows == ListJobsRows(J, user, status, cursor, limit + 1)
  IN IF Len(rows) = limit + 1
     THEN [jobs |-> [n \in 1 .. limit |-> [id |-> rows[n], row |-> J[rows[n]]]],
           next_cursor |-> <<J[rows[limit + 1]].scheduled_at,
                             rows[limit + 1]>>]
     ELSE [jobs |-> [n \in 1 .. Len(rows) |->
                      [id |-> rows[n], row |-> J[rows[n]]]],
           next_cursor |-> NoCursor]

\* JobUsecase.ListAttempts: GetByID for the caller, then
\* AttemptRepository.ListByJobID
ListAttempts(J, A, j, user) ==
  IF GetByID(J, j, user).err # "" THEN NotFound
  ELSE Found({a \in A : a.job_id = j})

\* -------------------------------------------------------- store: attempts

\* UNIQUE (job_id, attempt_num)
AttemptExists(A, j, n) ==
  \E a \in A : a.job_id = j /\ a.attempt_num = n

\* AttemptRepository.CreateAttempt: INSERT of an open attempt.  Of the
\* timestamps only completed_at IS NULL matters (an open attempt), so it is
\* kept as the flag completed; worker_id, started_at and duration_ms are
\* never read back by the engine.  rc_at_open is history: the job row's
\* retry_count when the INSERT was applied.
CreateAttempt(A, j, n, rc) ==
  A \cup {[job_id |-> j, attempt_num |-> n, completed |-> FALSE,
            status_code |-> NULL, error |-> "", rc_at_open |-> rc]}

\* AttemptRepository.CompleteAttempt: UPDATE ... WHERE id = $1
CompleteAttempt(A, j, n, statusCode, errMsg) ==
  {IF a.job_id = j /\ a.attempt_num = n
   THEN [a EXCEPT !.completed = TRUE, !.status_code = statusCode,
                  !.error = errMsg]
   ELSE a : a \in A}

\* ------------------------------------------------------------ retry delay

TickMs == TickSeconds * 1000

\* min(base * 2^retryCount, time.Hour) in milliseconds.  The product is
\* compared with the cap before it is formed: base * 2^rc >= 1 h exactly
\* when 2^rc >= ceil(1 h / base), and the value is the cap from there on
\* (the program forms the product in float64, exact for these values).
ExponentialDelay(retryCount) ==
  IF Pow2(retryCount) >= CeilDiv(MaxDelayMs, BaseDelayMs)
  THEN MaxDelayMs
  ELSE BaseDelayMs * Pow2(retryCount)

\* the range of rand.Int63n(int64(delay/2)) for the exponential delay
JitterMax(rc) ==
  (ExponentialDelay(rc) \div 2) - 1

\* retryDelay without centring the jitter: delay + rand.Int63n(delay/2)
retryDelay_JitterNotCentred(backoff, retryCount, r) ==
  CASE backoff = BackoffExponential -> ExponentialDelay(retryCount) + r
    [] backoff = BackoffLinear -> BaseDelayMs * (retryCount + 1)
    [] OTHER -> BaseDelayMs

\* retryDelay in milliseconds; r is the value drawn by rand.Int63n
retryDelay(backoff, retryCount, r) ==
  CASE backoff = BackoffExponential ->
         LET delay == ExponentialDelay(retryCount)
             jitter == r - (delay \div 4)
         IN delay + jitter
    [] backoff = BackoffLinear -> BaseDelayMs * (retryCount + 1)
    [] OTHER -> BaseDelayMs

\* retryAt = time.Now().Add(retryDelay(...)) on the clock: the first tick at
\* which scheduled_at <= now holds, for every draw of the jitter
RetryAtTicks(backoff, retryCount, t) ==
  {t + d : d \in CeilDiv(retryDelay(backoff, retryCount, 0), TickMs) ..
               CeilDiv(retryDelay(backoff, retryCount, JitterMax(retryCount)),
                       TickMs)}

\* ------------------------------------------------------------------- init

\* what a run may still do: jobs to create, store errors and worker crashes
\* to suffer, rows to claim.  A run is either one job under store errors and
\* a crash, or NumJobs jobs on a store without errors where every worker may
\* crash once and every job is claimed once.
Scenarios ==
  {[jobs |-> 1, errors |-> MaxStoreErrors, crashes |-> MaxCrashes,
    claims |-> MaxClaims],
   [jobs |-> NumJobs, errors |-> 0, crashes |-> NumWorkers,
    claims |-> NumJobs]}

\* history, at the start: no job has succeeded (successes) or entered a
\* terminal status (terminated), no CreateAttempt was rejected by the unique
\* constraint (collision) or returned an error (open_failed), no job was
\* requested, no cancel request (cancel), create request (created) or read
\* request (read) was answered, no reaper replica has changed a job
\* (reaped), no ClaimAndFire call has returned (dispatched), and no
\* function of the program was applied on its own (computed)
NoHist ==
  [successes |-> [j \in JobIds |-> 0],
   terminated |-> [j \in JobIds |-> 0],
   collision |-> FALSE,
   open_failed |-> [j \in JobIds |-> NULL],
   requested |-> [j \in JobIds |-> NULL],
   cancel |-> <<>>,
   created |-> <<>>,
   read |-> <<>>,
   reaped |-> <<>>,
   dispatched |-> <<>>,
   computed |-> <<>>]

Init ==
  /\ now = 0
  /\ jobs = [j \in JobIds |-> AbsentJob]
  /\ attempts = {}
  /\ tasks = [w \in Workers |-> [s \in Slots |-> NoTask]]
  /\ procs = [w \in Workers |-> NoProc]
  /\ reapNext = ReapInterval
  /\ budget \in Scenarios
  /\ hist = NoHist
  /\ InitReplicas

\* history: requested is, per job, the max_retries its CreateJob was called
\* with; open_failed is, per job, the claim time of the last run whose
\* CreateAttempt returned an error (NULL: none did); terminated is how often
\* each job entered a terminal status (counted to 2)
Terminated(J, J2) ==
  [j \in JobIds |->
     IF J2[j].status \in Terminal /\ J2[j].status # J[j].status
     THEN Min(hist.terminated[j] + 1, 2)
     ELSE hist.terminated[j]]

HistJobs(J2) == [hist EXCEPT !.terminated = Terminated(jobs, J2)]

\* -------------------------------------------------------------------- API

\* the HTTP status JobHandler.Create answers with
StatusCreated == 201
StatusBadRequest == 400

\* an idempotency key no stored job carries: a client that never repeats one
NewKey == "key-" \o ToString(Cardinality({j \in JobIds :
                                             jobs[j].status # Absent}))

\* the keys of clients that do repeat them
IdempotencyKeys == {"k1", "k2"}

\* the INSERT of a request waits while a transaction in progress holds an
\* uncommitted row with the same user and key
InsertWaits(user, key) ==
  \E d \in DOMAIN txs : \E i \in 1 .. Len(txs[d].inserted) :
    /\ txs[d].inserted[i].user_id = user
    /\ txs[d].inserted[i].idempotency_key = key

\* JobHandler.Create -> JobUsecase.CreateJob: defaults, then
\* JobRepository.Create; ErrDuplicateJob is answered with 400 and anything
\* stored with 201
CreateJob(user, key, sched, maxRetriesIn, backoffIn) ==
  /\ now <= MaxCreateTime
  /\ budget.jobs > 0 \/ Duplicate(jobs, user, key)
  /\ ~ InsertWaits(user, key)
  /\ LET j == CHOOSE k \in JobIds :
                 /\ jobs[k].status = Absent
                 /\ \A m \in JobIds : jobs[m].status = Absent => k <= m
         maxRetries == IF maxRetriesIn = 0 THEN DefaultMaxRetries
                       ELSE maxRetriesIn
         backoff == IF backoffIn = "" THEN BackoffExponential ELSE backoffIn
     IN IF Duplicate(jobs, user, key)
        THEN /\ jobs' = jobs
             /\ hist' = [hist EXCEPT !.created =
                           [user |-> user, key |-> key,
                            code |-> StatusBadRequest]]
             /\ budget' = budget
        ELSE /\ jobs' = Create(jobs, j, user, key, sched, maxRetries,
                               backoff)
             /\ hist' = [hist EXCEPT
                           !.requested[j] = maxRetriesIn,
                           !.created =
                             [user |-> user, key |-> key,
                              code |-> StatusCreated]]
             /\ budget' = [budget EXCEPT !.jobs = @ - 1]
  /\ UNCHANGED <<now, attempts, tasks, procs, reapNext,
               replicas>>

\* JobUsecase.CancelJob -> JobRepository.Cancel
CancelJob(j, user) ==
  /\ CancelApplies(jobs, j, user)
  /\ jobs' = Cancel(jobs, j, user)
  /\ hist' = HistJobs(jobs')
  /\ UNCHANGED <<now, attempts, tasks, procs, reapNext, budget,
               replicas>>

\* ----------------------------------------------------------------- faults

\* the outcomes of n store writes of one step: each write succeeds or fails
\* with an error, within the run's budget of injected errors
Outcomes(n) ==
  {o \in [1 .. n -> BOOLEAN] :
     Cardinality({i \in 1 .. n : ~o[i]}) <= budget.errors}

Charge(o) ==
  [budget EXCEPT !.errors = @ - Cardinality({i \in DOMAIN o : ~o[i]})]

\* ----------------------------------------------------------------- worker

SlotsInUse(w) == {s \in Slots : tasks[w][s].pc # "free"}

\* the n-th free slot of worker w, and the rank of a job in a claimed set
NthFree(w, n) ==
  CHOOSE s \in Slots \ SlotsInUse(w) :
    Cardinality({x \in Slots \ SlotsInUse(w) : x <= s}) = n

Rank(j, S) == Cardinality({k \in S : k <= j})

\* the job task started for a claimed row: its snapshot of the row
NewTask(j, t) ==
  [NoTask EXCEPT !.pc = "open", !.job = j,
                 !.retry_count = jobs[j].retry_count,
                 !.max_retries = jobs[j].max_retries,
                 !.backoff = jobs[j].backoff,
                 !.last_beat = t]

\* a poll loop that asks for the whole capacity, whatever is in use
Available_Capacity(w) == Concurrency

\* processBatch: available := cap(w.sem) - len(w.sem)
Available(w) == Concurrency - procs[w].sem

\* a job task that returns without giving its slot back
Release_Never(P, w) == P

\* the deferred receive of a job task, defer func() { <-w.sem }(): it runs
\* when runJob returns, whatever the path
Release(P, w) == [P EXCEPT ![w].sem = @ - 1]

\* Worker.processBatch: claim as many jobs as there are free slots, then for
\* each claimed job acquire a slot (a send on the semaphore channel, which
\* waits while the channel is full) and start its task.  A poll loop that
\* waits in the send continues here when a slot is free.
processBatch(w) ==
  /\ procs[w].ctx = "live"
  /\ IF procs[w].backlog # {}
     THEN /\ procs[w].sem < Concurrency
          /\ \E t \in procs[w].backlog :
               /\ tasks' = [tasks EXCEPT ![w][NthFree(w, 1)] = t]
               /\ procs' = [procs EXCEPT ![w].backlog = @ \ {t},
                                         ![w].sem = @ + 1]
          /\ UNCHANGED <<jobs, budget>>
     ELSE /\ Available(w) # 0
          /\ \E S \in ClaimRows(jobs, now, Available(w)) :
               LET started == {j \in S : Rank(j, S) <=
                                            Concurrency - procs[w].sem} IN
               /\ S # {}
               /\ Cardinality(S) <= budget.claims
               /\ budget' = [budget EXCEPT !.claims = @ - Cardinality(S)]
               /\ jobs' = Claim(jobs, w, S, now)
               /\ tasks' = [tasks EXCEPT ![w] =
                    [s \in Slots |->
                       IF \E j \in started : NthFree(w, Rank(j, started)) = s
                       THEN NewTask(CHOOSE j \in started :
                                      NthFree(w, Rank(j, started)) = s, now)
                       ELSE tasks[w][s]]]
               /\ procs' = [procs EXCEPT
                              ![w].backlog =
                                {NewTask(j, now) : j \in S \ started},
                              ![w].sem = @ + Cardinality(started)]
  /\ UNCHANGED <<now, attempts, reapNext, hist,
               replicas>>

\* the attempt number runJob opens: the snapshot's retry_count + 1
AttemptNum_Next(t) == t.retry_count + 2

AttemptNum(t) == t.retry_count + 1

\* a run that marks the job failed when it cannot open its attempt
AbandonRun_MarksFailed(J, j) == Fail(J, j, "create attempt")

\* Worker.runJob, CreateAttempt returned an error: log and return; no store
\* call is made for job j
AbandonRun(J, j) == J

\* Worker.runJob, first statement: open the attempt record; on an error the
\* run is abandoned (the deferred slot release runs).  Otherwise the
\* heartbeat ticker starts; its first firing falls in this tick or the next.
runJobOpen(w, s, o, first) ==
  LET t == tasks[w][s]
      dup == AttemptExists(attempts, t.job, AttemptNum(t))
  IN
  /\ procs[w].ctx = "live"
  /\ t.pc = "open"
  /\ IF o[1] /\ ~dup
     THEN /\ attempts' = CreateAttempt(attempts, t.job, AttemptNum(t),
                                       jobs[t.job].retry_count)
          /\ tasks' = [tasks EXCEPT ![w][s] =
               [t EXCEPT !.pc = "exec", !.hb_next = first]]
          /\ UNCHANGED <<jobs, hist, procs>>
     ELSE /\ jobs' = AbandonRun(jobs, t.job)
          /\ tasks' = [tasks EXCEPT ![w][s] = NoTask]
          /\ hist' = [HistJobs(jobs') EXCEPT
                        !.collision = @ \/ (o[1] /\ dup),
                        !.open_failed[t.job] = t.last_beat]
          /\ procs' = Release(procs, w)
          /\ UNCHANGED attempts
  /\ budget' = Charge(o)
  /\ UNCHANGED <<now, reapNext,
               replicas>>

\* the error text runJob builds for a failed execution
ErrMsg(r) ==
  IF r.err THEN "do request"
  ELSE "unexpected status code: " \o ToString(r.code)

\* the status code runJob passes to closeAttempt for a failed execution
StatusCodeOf(r) == IF r.code # 0 THEN r.code ELSE NULL

\* a test that takes every 2xx answer for a success
IsSuccess_Any2xx(r) == ~r.err /\ r.code \in 200 .. 299

\* Worker.runJob: result.Err == nil && result.StatusCode == http.StatusOK
IsSuccess(r) == ~r.err /\ r.code = 200

\* Worker.closeAttempt (an error of CompleteAttempt is logged only)
closeAttempt(t, statusCode, errMsg, ok) ==
  IF ok
  THEN CompleteAttempt(attempts, t.job, AttemptNum(t), statusCode, errMsg)
  ELSE attempts

\* Worker.runJob, success branch: executor.Run returned 200 without error;
\* closeAttempt, repo.Complete, return
runJobComplete(w, s, r, o) ==
  LET t == tasks[w][s] IN
  /\ procs[w].ctx = "live"
  /\ t.pc = "exec"
  /\ IsSuccess(r)
  /\ attempts' = closeAttempt(t, r.code, "", o[1])
  /\ jobs' = IF o[2] THEN Complete(jobs, t.job) ELSE jobs
  /\ hist' = [HistJobs(jobs') EXCEPT !.successes[t.job] =
                IF o[2] THEN Min(@ + 1, 2) ELSE @]
  /\ tasks' = [tasks EXCEPT ![w][s] = NoTask]
  /\ budget' = Charge(o)
  /\ procs' = Release(procs, w)
  /\ UNCHANGED <<now, reapNext,
               replicas>>

\* Worker.runJob, retry branch: the execution failed and the snapshot has
\* retries left; closeAttempt, repo.Reschedule, return
runJobReschedule(w, s, r, o) ==
  LET t == tasks[w][s] IN
  /\ procs[w].ctx = "live"
  /\ t.pc = "exec"
  /\ ~IsSuccess(r)
  /\ t.retry_count < t.max_retries
  /\ attempts' = closeAttempt(t, StatusCodeOf(r), ErrMsg(r), o[1])
  /\ \E retryAt \in RetryAtTicks(t.backoff, t.retry_count, now) :
       jobs' = IF o[2] THEN Reschedule(jobs, t.job, ErrMsg(r), retryAt)
               ELSE jobs
  /\ hist' = HistJobs(jobs')
  /\ tasks' = [tasks EXCEPT ![w][s] = NoTask]
  /\ budget' = Charge(o)
  /\ procs' = Release(procs, w)
  /\ UNCHANGED <<now, reapNext,
               replicas>>

\* Worker.runJob, exhausted branch: the execution failed and the snapshot
\* has no retries left; closeAttempt, repo.Fail, return
runJobFail(w, s, r, o) ==
  LET t == tasks[w][s] IN
  /\ procs[w].ctx = "live"
  /\ t.pc = "exec"
  /\ ~IsSuccess(r)
  /\ ~(t.retry_count < t.max_retries)
  /\ attempts' = closeAttempt(t, StatusCodeOf(r), ErrMsg(r), o[1])
  /\ jobs' = IF o[2] THEN Fail(jobs, t.job, ErrMsg(r)) ELSE jobs
  /\ hist' = HistJobs(jobs')
  /\ tasks' = [tasks EXCEPT ![w][s] = NoTask]
  /\ budget' = Charge(o)
  /\ procs' = Release(procs, w)
  /\ UNCHANGED <<now, reapNext,
               replicas>>

\* Worker.heartbeat: the ticker's firings of this tick; an error is logged
\* only
heartbeat(w, s, o) ==
  LET t == tasks[w][s] IN
  /\ procs[w].ctx = "live"
  /\ t.pc = "exec"
  /\ t.hb_next <= now
  /\ jobs' = IF o[1] THEN UpdateHeartbeat(jobs, t.job, now) ELSE jobs
  /\ tasks' = [tasks EXCEPT ![w][s] =
       [t EXCEPT !.hb_next = now + 1,
                 !.last_beat = IF o[1] THEN now ELSE @]]
  /\ budget' = Charge(o)
  /\ UNCHANGED <<now, attempts, procs, reapNext, hist,
               replicas>>

\* the worker process dies: all its job tasks and heartbeats stop, and its
\* semaphore is gone with it
Crash(w) ==
  /\ budget.crashes > 0
  /\ SlotsInUse(w) # {}
  /\ tasks' = [tasks EXCEPT ![w] = [s \in Slots |-> NoTask]]
  /\ budget' = [budget EXCEPT !.crashes = @ - 1]
  /\ procs' = [procs EXCEPT ![w].sem = 0]
  /\ UNCHANGED <<now, jobs, attempts, reapNext, hist,
               replicas>>

\* ----------------------------------------------------------------- reaper

\* Reaper.reap: RescheduleStale, then FailStale, with the same cutoff; an
\* error of either statement is logged only
reap(o) ==
  LET staleCutoff == now - HeartbeatTimeout IN
  /\ reapNext = now
  /\ \E S1 \in RescheduleStaleRows(jobs, staleCutoff, ReapLimit) :
       LET J1 == IF o[1] THEN RescheduleStale(jobs, S1) ELSE jobs IN
       \E S2 \in FailStaleRows(J1, staleCutoff, ReapLimit) :
         jobs' = IF o[2] THEN FailStale(J1, S2) ELSE J1
  /\ reapNext' = now + ReapInterval
  /\ hist' = HistJobs(jobs')
  /\ budget' = Charge(o)
  /\ UNCHANGED <<now, attempts, tasks, procs,
               replicas>>

\* ------------------------------------------------------------------ clock

\* time passes once every ticker due in the current tick has fired
Tick ==
  /\ now < MaxTime
  /\ reapNext > now
  /\ \A r \in Reapers :
       reapers[r].pc = "idle" /\ reapers[r].next # NULL
         => reapers[r].next > now
  /\ \A w \in Workers : \A s \in Slots :
       tasks[w][s].pc = "exec" => tasks[w][s].hb_next > now
  /\ now' = now + 1
  /\ tasks' = [w \in Workers |-> [s \in Slots |->
       IF tasks[w][s].pc = "free" THEN tasks[w][s]
       ELSE [tasks[w][s] EXCEPT !.lapsed = @ \/ (tasks[w][s].last_beat < now)]]]
  /\ UNCHANGED <<jobs, attempts, procs, reapNext, budget, hist,
               replicas>>

ScheduledAtInputs == {now, now + 1}

Next ==
  \/ \E u \in Users : \E sched \in ScheduledAtInputs :
       \E mr \in MaxRetriesInputs : \E bo \in BackoffInputs :
         CreateJob(u, NewKey, sched, mr, bo)
  \/ \E j \in JobIds : \E u \in Users : CancelJob(j, u)
  \/ \E w \in Workers : processBatch(w)
  \/ \E w \in Workers : \E s \in Slots : \E o \in Outcomes(1) :
       \E first \in {now, now + 1} : runJobOpen(w, s, o, first)
  \/ \E w \in Workers : \E s \in Slots : \E r \in Results :
       \E o \in Outcomes(2) : runJobComplete(w, s, r, o)
  \/ \E w \in Workers : \E s \in Slots : \E r \in Results :
       \E o \in Outcomes(2) : runJobReschedule(w, s, r, o)
  \/ \E w \in Workers : \E s \in Slots : \E r \in Results :
       \E o \in Outcomes(2) : runJobFail(w, s, r, o)
  \/ \E w \in Workers : \E s \in Slots : \E o \in Outcomes(1) :
       heartbeat(w, s, o)
  \/ \E w \in Workers : Crash(w)
  \/ \E o \in Outcomes(2) : reap(o)
  \/ Tick

Spec == Init /\ [][Next]_vars

\* ------------------------------------------------------ no crash, no error

\* the max_retries a request may carry: binding "omitempty,min=0,max=20"
MaxRetriesInputsAll == {0, 1}

\* one job on a store without errors, with workers that do not crash
InitReliable ==
  /\ now = 0
  /\ jobs = [j \in JobIds |-> AbsentJob]
  /\ attempts = {}
  /\ tasks = [w \in Workers |-> [s \in Slots |-> NoTask]]
  /\ procs = [w \in Workers |-> NoProc]
  /\ reapNext = ReapInterval
  /\ budget = [jobs |-> 1, errors |-> 0, crashes |-> 0, claims |-> MaxClaims]
  /\ hist = NoHist
  /\ InitReplicas

NextReliable ==
  \/ \E u \in Users : \E sched \in ScheduledAtInputs :
       \E mr \in MaxRetriesInputsAll : \E bo \in BackoffInputs :
         CreateJob(u, NewKey, sched, mr, bo)
  \/ \E j \in JobIds : \E u \in Users : CancelJob(j, u)
  \/ \E w \in Workers : processBatch(w)
  \/ \E w \in Workers : \E s \in Slots : \E o \in Outcomes(1) :
       \E first \in {now, now + 1} : runJobOpen(w, s, o, first)
  \/ \E w \in Workers : \E s \in Slots : \E r \in ResultsAll :
       \E o \in Outcomes(2) : runJobComplete(w, s, r, o)
  \/ \E w \in Workers : \E s \in Slots : \E r \in ResultsAll :
       \E o \in Outcomes(2) : runJobReschedule(w, s, r, o)
  \/ \E w \in Workers : \E s \in Slots : \E r \in ResultsAll :
       \E o \in Outcomes(2) : runJobFail(w, s, r, o)
  \/ \E w \in Workers : \E s \in Slots : \E o \in Outcomes(1) :
       heartbeat(w, s, o)
  \/ \E o \in Outcomes(2) : reap(o)
  \/ Tick

SpecReliable == InitReliable /\ [][NextReliable]_vars

\* --------------------------------------------------------------- shutdown

\* SIGINT or SIGTERM reaches the process of worker w: the context of
\* signal.NotifyContext is cancelled.  Start returns at its next select, and
\* every job task and heartbeat of w holds this same context.
Signal(w) ==
  /\ procs[w].ctx = "live"
  /\ procs' = [procs EXCEPT ![w].ctx = "done"]
  /\ UNCHANGED <<now, jobs, attempts, tasks, reapNext, budget, hist,
               replicas>>

\* a job task of a worker whose context is cancelled: CreateAttempt, the
\* HTTP call, closeAttempt and Complete, Reschedule or Fail all return the
\* context's error, which runJob logs; the task ends and has written nothing
runJobCancelled(w, s) ==
  /\ procs[w].ctx = "done"
  /\ tasks[w][s].pc # "free"
  /\ tasks' = [tasks EXCEPT ![w][s] = NoTask]
  /\ procs' = Release(procs, w)
  /\ UNCHANGED <<now, jobs, attempts, reapNext, budget, hist,
               replicas>>

\* main returns once the metrics server is shut down, at most 10 s after the
\* signal: the process ends with whatever job tasks are left
Exit(w) ==
  /\ procs[w].ctx = "done"
  /\ procs' = [procs EXCEPT ![w].ctx = "exited", ![w].sem = 0]
  /\ tasks' = [tasks EXCEPT ![w] = [s \in Slots |-> NoTask]]
  /\ UNCHANGED <<now, jobs, attempts, reapNext, budget, hist,
               replicas>>

\* one job, claimed at most twice, on a store without errors; a worker may
\* crash, and any worker process may be signalled
InitShutdown ==
  /\ now = 0
  /\ jobs = [j \in JobIds |-> AbsentJob]
  /\ attempts = {}
  /\ tasks = [w \in Workers |-> [s \in Slots |-> NoTask]]
  /\ procs = [w \in Workers |-> NoProc]
  /\ reapNext = ReapInterval
  /\ budget = [jobs |-> 1, errors |-> 0, crashes |-> MaxCrashes,
               claims |-> MaxClaims - 1]
  /\ hist = NoHist
  /\ InitReplicas

NextShutdown ==
  \/ Next
  \/ \E w \in Workers : Signal(w)
  \/ \E w \in Workers : \E s \in Slots : runJobCancelled(w, s)
  \/ \E w \in Workers : Exit(w)

SpecShutdown == InitShutdown /\ [][NextShutdown]_vars

\* -------------------------------------------------------------------- API

\* the callers of the API: the owner of the jobs and another user
Callers == Users \cup {"u2"}

\* JobHandler.Cancel -> JobUsecase.CancelJob -> JobRepository.Cancel, for
\* any job id and caller, with the error the caller gets; seq tells one
\* request from the next
CancelRequest(j, user) ==
  /\ jobs' = Cancel(jobs, j, user)
  /\ hist' = [HistJobs(jobs') EXCEPT
                !.cancel =
                  [job |-> j, user |-> user,
                   result |-> CancelResult(jobs, j, user),
                   seq |-> IF hist.cancel = <<>> THEN 0
                           ELSE 1 - hist.cancel.seq],
                !.read = <<>>]
  /\ UNCHANGED <<now, attempts, tasks, procs, reapNext, budget,
               replicas>>

\* one job, claimed at most twice, on a store without errors and with
\* workers that do not crash
InitApi ==
  /\ now = 0
  /\ jobs = [j \in JobIds |-> AbsentJob]
  /\ attempts = {}
  /\ tasks = [w \in Workers |-> [s \in Slots |-> NoTask]]
  /\ procs = [w \in Workers |-> NoProc]
  /\ reapNext = ReapInterval
  /\ budget = [jobs |-> 1, errors |-> 0, crashes |-> 0,
               claims |-> MaxClaims - 1]
  /\ hist = NoHist
  /\ InitReplicas

NextApi ==
  \/ \E u \in Users : \E sched \in ScheduledAtInputs :
       \E mr \in MaxRetriesInputs : \E bo \in BackoffInputs :
         CreateJob(u, NewKey, sched, mr, bo)
  \/ \E j \in JobIds : \E u \in Callers : CancelRequest(j, u)
  \/ \E w \in Workers : processBatch(w)
  \/ \E w \in Workers : \E s \in Slots : \E o \in Outcomes(1) :
       \E first \in {now, now + 1} : runJobOpen(w, s, o, first)
  \/ \E w \in Workers : \E s \in Slots : \E r \in Results :
       \E o \in Outcomes(2) : runJobComplete(w, s, r, o)
  \/ \E w \in Workers : \E s \in Slots : \E r \in Results :
       \E o \in Outcomes(2) : runJobReschedule(w, s, r, o)
  \/ \E w \in Workers : \E s \in Slots : \E r \in Results :
       \E o \in Outcomes(2) : runJobFail(w, s, r, o)
  \/ \E w \in Workers : \E s \in Slots : \E o \in Outcomes(1) :
       heartbeat(w, s, o)
  \/ \E o \in Outcomes(2) : reap(o)
  \/ Tick

SpecApi == InitApi /\ [][NextApi]_vars

\* ------------------------------------------------- one worker process

\* a deployment with a single worker process (the contexts of the others
\* are done: they claim and run nothing) on a store without errors, with
\* NumJobs jobs, of which one more claim is made than there are jobs
InitOneWorker ==
  /\ now = 0
  /\ jobs = [j \in JobIds |-> AbsentJob]
  /\ attempts = {}
  /\ tasks = [w \in Workers |-> [s \in Slots |-> NoTask]]
  /\ procs = [w \in Workers |->
                IF w = 1 THEN NoProc ELSE [NoProc EXCEPT !.ctx = "done"]]
  /\ reapNext = ReapInterval
  /\ budget = [jobs |-> NumJobs, errors |-> 0, crashes |-> MaxCrashes,
               claims |-> NumJobs + 1]
  /\ hist = NoHist
  /\ InitReplicas

SpecOneWorker == InitOneWorker /\ [][Next]_vars

\* --------------------------------------------------------- reaper replicas

\* history: every job in S was changed by a statement of replica r; the
\* claim it held then is told by claimed_at, claimed_by and retry_count
Reaped(r, S, kind) ==
  LET q == CHOOSE f \in [1 .. Cardinality(S) -> S] :
             \A a, b \in 1 .. Cardinality(S) : a < b => f[a] < f[b]
  IN hist.reaped \o
       [n \in 1 .. Cardinality(S) |->
          [job |-> q[n], replica |-> r, kind |-> kind,
           claimed_at |-> jobs[q[n]].claimed_at,
           claimed_by |-> jobs[q[n]].claimed_by,
           retry_count |-> jobs[q[n]].retry_count]]

\* Reaper.reap of replica r, first statement: its ticker has fired, the
\* cutoff is taken and RescheduleStale runs; an error is logged only
reapReschedule(r, o) ==
  /\ reapers[r].pc = "idle"
  /\ reapers[r].next # NULL
  /\ reapers[r].next <= now
  /\ LET staleCutoff == now - HeartbeatTimeout IN
     /\ \E S \in RescheduleStaleRows(jobs, staleCutoff, ReapLimit) :
          IF o[1]
          THEN /\ jobs' = RescheduleStale(jobs, S)
               /\ hist' = [HistJobs(jobs') EXCEPT
                             !.reaped = Reaped(r, S, "rescheduled")]
          ELSE UNCHANGED <<jobs, hist>>
     /\ reapers' = [reapers EXCEPT
                      ![r] = [pc |-> "fail", staleCutoff |-> staleCutoff,
                              next |-> now + ReapInterval]]
  /\ budget' = Charge(o)
  /\ UNCHANGED <<now, attempts, tasks, procs, reapNext, schedules, txs,
                 leaked>>

\* Reaper.reap of replica r, second statement: FailStale with the cutoff of
\* the cycle, however long ago it was taken
reapFail(r, o) ==
  /\ reapers[r].pc = "fail"
  /\ \E S \in FailStaleRows(jobs, reapers[r].staleCutoff, ReapLimit) :
       IF o[1]
       THEN /\ jobs' = FailStale(jobs, S)
            /\ hist' = [HistJobs(jobs') EXCEPT
                          !.reaped = Reaped(r, S, "failed")]
       ELSE UNCHANGED <<jobs, hist>>
  /\ reapers' = [reapers EXCEPT ![r].pc = "idle", ![r].staleCutoff = NULL]
  /\ budget' = Charge(o)
  /\ UNCHANGED <<now, attempts, tasks, procs, reapNext, schedules, txs,
                 leaked>>

\* NumReapers scheduler processes share the store, each with its own reaper
\* ticker; one job with one retry, claimed at most twice, on a store
\* without errors; a worker may crash
InitReapers ==
  /\ now = 0
  /\ jobs = [j \in JobIds |-> AbsentJob]
  /\ attempts = {}
  /\ tasks = [w \in Workers |-> [s \in Slots |-> NoTask]]
  /\ procs = [w \in Workers |-> NoProc]
  /\ reapNext = MaxTime + 1
  /\ budget = [jobs |-> 1, errors |-> 0, crashes |-> MaxCrashes,
               claims |-> MaxClaims - 1]
  /\ hist = NoHist
  /\ schedules = [s \in SchedIds |-> AbsentSchedule]
  /\ txs = [d \in Dispatchers |-> NoTx]
  /\ leaked = {}
  /\ reapers = [r \in Reapers |-> [NoReaper EXCEPT !.next = ReapInterval]]

NextReapers ==
  \/ \E u \in Users : \E sched \in ScheduledAtInputs :
       \E mr \in MaxRetriesInputs : \E bo \in BackoffInputs :
         CreateJob(u, NewKey, sched, mr, bo)
  \/ \E w \in Workers : processBatch(w)
  \/ \E w \in Workers : \E s \in Slots : \E o \in Outcomes(1) :
       \E first \in {now, now + 1} : runJobOpen(w, s, o, first)
  \/ \E w \in Workers : \E s \in Slots : \E r \in Results :
       \E o \in Outcomes(2) : runJobComplete(w, s, r, o)
  \/ \E w \in Workers : \E s \in Slots : \E r \in Results :
       \E o \in Outcomes(2) : runJobReschedule(w, s, r, o)
  \/ \E w \in Workers : \E s \in Slots : \E r \in Results :
       \E o \in Outcomes(2) : runJobFail(w, s, r, o)
  \/ \E w \in Workers : \E s \in Slots : \E o \in Outcomes(1) :
       heartbeat(w, s, o)
  \/ \E w \in Workers : Crash(w)
  \/ \E r \in Reapers : \E o \in Outcomes(1) : reapReschedule(r, o)
  \/ \E r \in Reapers : \E o \in Outcomes(1) : reapFail(r, o)
  \/ Tick

SpecReapers == InitReapers /\ [][NextReapers]_vars

\* ------------------------------------------------------------- dispatcher

\* the schedule rows a transaction holds under FOR UPDATE
Held(tx) == {tx.selected[n].id : n \in 1 .. Len(tx.selected)}

\* the rows no SELECT ... SKIP LOCKED returns and every UPDATE waits for
Locked == leaked \cup UNION {Held(txs[d]) : d \in Dispatchers}

\* the free rows of the jobs table the transactions in progress will fill
Reserved == Cardinality(UNION {Held(txs[d]) : d \in Dispatchers})

\* ScheduleHandler.Create -> ScheduleUsecase.CreateSchedule: defaults, the
\* first run after time.Now(), then ScheduleRepository.Create
CreateSchedule(user, expr, maxRetriesIn, backoffIn) ==
  /\ now <= MaxCreateTime
  /\ \E s \in SchedIds :
       /\ schedules[s].user_id = ""
       /\ \A m \in SchedIds : schedules[m].user_id = "" => s <= m
       /\ LET maxRetries == IF maxRetriesIn = 0 THEN DefaultMaxRetries
                             ELSE maxRetriesIn
              backoff == IF backoffIn = "" THEN BackoffExponential
                         ELSE backoffIn
          IN schedules' = CreateScheduleRow(schedules, s, user, expr,
                                            maxRetries, backoff,
                                            CronNext(expr, now))
  /\ UNCHANGED <<now, jobs, attempts, tasks, procs, reapNext, budget, hist,
                 txs, leaked, reapers>>

\* ScheduleUsecase.PauseSchedule and ResumeSchedule by the owner ->
\* ScheduleRepository.SetPaused; the UPDATE waits while a transaction holds
\* the row it would change
PauseSchedule(s, user) ==
  /\ SetPausedResult(schedules, s, user, TRUE) = "ok" => s \notin Locked
  /\ schedules' = SetPaused(schedules, now, s, user, TRUE)
  /\ UNCHANGED <<now, jobs, attempts, tasks, procs, reapNext, budget, hist,
                 txs, leaked, reapers>>

ResumeSchedule(s, user) ==
  /\ SetPausedResult(schedules, s, user, FALSE) = "ok" => s \notin Locked
  /\ schedules' = SetPaused(schedules, now, s, user, FALSE)
  /\ UNCHANGED <<now, jobs, attempts, tasks, procs, reapNext, budget, hist,
                 txs, leaked, reapers>>

\* history: the ClaimAndFire call of replica d has returned; failed is the
\* schedule in whose round of the loop it returned an error (NULL: none)
Dispatched(d, committed) ==
  [hist EXCEPT !.dispatched = [replica |-> d, committed |-> committed,
                               failed |-> NULL]]

\* Dispatcher.dispatch -> ClaimAndFire of replica d, up to the end of the
\* SELECT: the transaction begins and locks the rows it is given.  With no
\* row the loop is skipped and the commit of the empty transaction changes
\* nothing.
claimSchedules(d) ==
  /\ txs[d].pc = "idle"
  /\ \E q \in ClaimScheduleRows(schedules, now, Locked, DispatchLimit) :
       /\ Len(q) + Reserved + budget.jobs <=
            Cardinality({j \in JobIds : jobs[j].status = Absent})
       /\ txs' = IF q = <<>> THEN txs
                 ELSE [txs EXCEPT ![d] =
                         [pc |-> "fire",
                          selected |-> [n \in 1 .. Len(q) |->
                                          [id |-> q[n],
                                           row |-> schedules[q[n]]]],
                          i |-> 1, inserted |-> <<>>, updated |-> <<>>,
                          start |-> now]]
  /\ UNCHANGED <<now, jobs, attempts, tasks, procs, reapNext, budget, hist,
                 schedules, leaked, reapers>>

\* ClaimAndFire returns an error from inside the loop: the deferred
\* function tests the variable err, which the return statement does not
\* set, so there is no Rollback; the transaction stays open on a connection
\* nobody holds, with its row locks and nothing of it visible
abandonTx(d) ==
  /\ txs' = [txs EXCEPT ![d] = NoTx]
  /\ leaked' = leaked \cup Held(txs[d])
  /\ hist' = [Dispatched(d, FALSE) EXCEPT
                !.dispatched.failed = txs[d].selected[txs[d].i].id]
  /\ UNCHANGED <<jobs, schedules>>

\* one round of the loop of ClaimAndFire: computeNext, the key, the INSERT
\* of the job and the UPDATE of the schedule.  o[1] and o[2] tell whether
\* the INSERT and the UPDATE escape an injected error.  A unique violation
\* of the INSERT (23505) is logged and the loop goes on, but the server has
\* put the transaction into the aborted state, in which it refuses every
\* statement: the UPDATE returns an error.
fireSchedule(d, o, late) ==
  /\ txs[d].pc = "fire"
  /\ LET tx == txs[d]
         s == tx.selected[tx.i]
         next == computeNext(s.row, now, late)
         idempotencyKey == IdempotencyKey(s.id, s.row, next)
         j == FiredJob(s.id, s.row, idempotencyKey, tx.start)
         duplicate ==
           \/ Duplicate(jobs, s.row.user_id, idempotencyKey)
           \/ \E n \in 1 .. Len(tx.inserted) :
                /\ tx.inserted[n].user_id = s.row.user_id
                /\ tx.inserted[n].idempotency_key = idempotencyKey
         aborted == duplicate
     IN IF ~o[1] \/ aborted \/ ~o[2]
        THEN abandonTx(d)
        ELSE /\ txs' = [txs EXCEPT
                          ![d].inserted = Append(@, j),
                          ![d].updated =
                            Append(@, [id |-> s.id, next_run_at |-> next,
                                       at |-> now]),
                          ![d].i = @ + 1,
                          ![d].pc = IF tx.i = Len(tx.selected) THEN "commit"
                                    ELSE "fire"]
             /\ UNCHANGED <<jobs, schedules, leaked, hist>>
  /\ budget' = Charge(o)
  /\ UNCHANGED <<now, attempts, tasks, procs, reapNext, reapers>>

\* tx.Commit: everything the transaction wrote becomes visible at once and
\* the locks are released; on an error err is set, the deferred Rollback
\* runs and nothing becomes visible
commitTx(d, o) ==
  /\ txs[d].pc = "commit"
  /\ IF o[1]
     THEN /\ jobs' = CommitJobs(jobs, txs[d].inserted)
          /\ schedules' = CommitSchedules(schedules, txs[d].updated,
                                          txs[d].start)
          /\ hist' = Dispatched(d, TRUE)
     ELSE /\ UNCHANGED <<jobs, schedules>>
          /\ hist' = Dispatched(d, FALSE)
  /\ txs' = [txs EXCEPT ![d] = NoTx]
  /\ budget' = Charge(o)
  /\ UNCHANGED <<now, attempts, tasks, procs, reapNext, leaked, reapers>>

\* the keys a client may send: one of its own and the key the dispatcher
\* makes for the first run of the first schedule
DispatchKeys == {"k1", IdempotencyKey(1, [next_run_at |-> 1], 0)}

\* NumDispatchers scheduler processes share the store; schedules of one
\* user, who may also create one job himself or none, and one store error.
\* The workers and the reaper are left out: they do not touch the
\* schedules table and do not insert jobs.
InitDispatch ==
  /\ now = 0
  /\ jobs = [j \in JobIds |-> AbsentJob]
  /\ attempts = {}
  /\ tasks = [w \in Workers |-> [s \in Slots |-> NoTask]]
  /\ procs = [w \in Workers |-> NoProc]
  /\ reapNext = MaxTime + 1
  /\ budget \in {[jobs |-> n, errors |-> MaxStoreErrors, crashes |-> 0,
                   claims |-> 0] : n \in {0, 1}}
  /\ hist = NoHist
  /\ InitReplicas

NextDispatch ==
  \/ \E u \in Users : \E expr \in CronExprs :
       \E mr \in MaxRetriesInputs : \E bo \in BackoffInputs :
         CreateSchedule(u, expr, mr, bo)
  \/ \E s \in SchedIds : \E u \in Users : PauseSchedule(s, u)
  \/ \E s \in SchedIds : \E u \in Users : ResumeSchedule(s, u)
  \/ \E u \in Users : \E key \in DispatchKeys :
       \E mr \in MaxRetriesInputs : \E bo \in BackoffInputs :
         CreateJob(u, key, now, mr, bo)
  \/ \E d \in Dispatchers : claimSchedules(d)
  \/ \E d \in Dispatchers : \E o \in Outcomes(2) : \E late \in BOOLEAN :
       fireSchedule(d, o, late)
  \/ \E d \in Dispatchers : \E o \in Outcomes(1) : commitTx(d, o)
  \/ Tick

SpecDispatch == InitDispatch /\ [][NextDispatch]_vars

\* ---------------------------------------------------------------- tenants

\* a read request: the operation, the caller and what was asked for
Queries ==
  {[op |-> "GetJob", user |-> u, job |-> j] : u \in Callers, j \in JobIds}
    \cup
  {[op |-> "ListAttempts", user |-> u, job |-> j] :
     u \in Callers, j \in JobIds}
    \cup
  {[op |-> "ListJobs", user |-> u, status |-> st, cursor |-> c,
    limit |-> 0] :
     u \in Callers, st \in {"", StatusPending},
     c \in {NoCursor, <<0, NumJobs>>}}

\* JobHandler.GetByID, JobHandler.ListAttempts and JobHandler.List: what the
\* use case returns for query q on jobs J and attempts A
Answer(J, A, q) ==
  CASE q.op = "GetJob" -> GetByID(J, q.job, q.user)
    [] q.op = "ListAttempts" -> ListAttempts(J, A, q.job, q.user)
    [] OTHER -> Found(ListJobs(J, q.user, q.status, q.cursor, q.limit))

\* a read request is answered; history keeps the last request only: this
\* query and its answer
ReadRequest(q) ==
  /\ hist' = [hist EXCEPT
                !.read = [query |-> q, answer |-> Answer(jobs, attempts, q)],
                !.cancel = <<>>]
  /\ UNCHANGED <<now, jobs, attempts, tasks, procs, reapNext, budget,
                 replicas>>

\* two users who may repeat idempotency keys; NumJobs jobs, two claims, on a
\* store without errors and with one worker that does not crash
InitTenants ==
  /\ now = 0
  /\ jobs = [j \in JobIds |-> AbsentJob]
  /\ attempts = {}
  /\ tasks = [w \in Workers |-> [s \in Slots |-> NoTask]]
  /\ procs = [w \in Workers |->
               IF w = 1 THEN NoProc ELSE [NoProc EXCEPT !.ctx = "done"]]
  /\ reapNext = ReapInterval
  /\ budget = [jobs |-> NumJobs, errors |-> 0, crashes |-> 0, claims |-> 2]
  /\ hist = NoHist
  /\ InitReplicas

NextTenants ==
  \/ \E u \in Callers : \E key \in IdempotencyKeys :
       \E mr \in MaxRetriesInputs : \E bo \in BackoffInputs :
         CreateJob(u, key, now, mr, bo)
  \/ \E w \in Workers : processBatch(w)
  \/ \E w \in Workers : \E s \in Slots : \E o \in Outcomes(1) :
       \E first \in {now, now + 1} : runJobOpen(w, s, o, first)
  \/ \E w \in Workers : \E s \in Slots : \E r \in Results :
       \E o \in Outcomes(2) : runJobComplete(w, s, r, o)
  \/ \E w \in Workers : \E s \in Slots : \E r \in Results :
       \E o \in Outcomes(2) : runJobReschedule(w, s, r, o)
  \/ \E w \in Workers : \E s \in Slots : \E r \in Results :
       \E o \in Outcomes(2) : runJobFail(w, s, r, o)
  \/ \E w \in Workers : \E s \in Slots : \E o \in Outcomes(1) :
       heartbeat(w, s, o)
  \/ \E o \in Outcomes(2) : reap(o)
  \/ Tick

SpecTenants == InitTenants /\ [][NextTenants]_vars

\* the same two users with keys they do not repeat, and their cancel and
\* read requests; with one claim per run no job exhausts its retries in the
\* hands of its worker
InitReads ==
  /\ now = 0
  /\ jobs = [j \in JobIds |-> AbsentJob]
  /\ attempts = {}
  /\ tasks = [w \in Workers |-> [s \in Slots |-> NoTask]]
  /\ procs = [w \in Workers |->
               IF w = 1 THEN NoProc ELSE [NoProc EXCEPT !.ctx = "done"]]
  /\ reapNext = ReapInterval
  /\ budget = [jobs |-> NumJobs, errors |-> 0, crashes |-> 0, claims |-> 1]
  /\ hist = NoHist
  /\ InitReplicas

NextReads ==
  \/ \E u \in Callers : \E mr \in MaxRetriesInputs :
       \E bo \in BackoffInputs : CreateJob(u, NewKey, now, mr, bo)
  \/ \E j \in JobIds : \E u \in Callers : CancelRequest(j, u)
  \/ \E q \in Queries : ReadRequest(q)
  \/ \E w \in Workers : processBatch(w)
  \/ \E w \in Workers : \E s \in Slots : \E o \in Outcomes(1) :
       \E first \in {now, now + 1} : runJobOpen(w, s, o, first)
  \/ \E w \in Workers : \E s \in Slots : \E r \in Results :
       \E o \in Outcomes(2) : runJobComplete(w, s, r, o)
  \/ \E w \in Workers : \E s \in Slots : \E r \in Results :
       \E o \in Outcomes(2) : runJobReschedule(w, s, r, o)
  \/ \E w \in Workers : \E s \in Slots : \E o \in Outcomes(1) :
       heartbeat(w, s, o)
  \/ \E o \in Outcomes(2) : reap(o)
  \/ Tick

SpecReads == InitReads /\ [][NextReads]_vars

\* ----------------------------------------------------------------- claims

\* the (worker, slot) pairs a step hands a job to: the rows a Claim returned
Handed(w, s) == tasks[w][s].pc = "free" /\ tasks'[w][s].pc = "open"

\* C1: every job a step hands to a caller was pending before the step and is
\* running for that caller after it, and the step hands it to no other slot:
\* the sets returned to different callers are disjoint, and a job is not
\* returned again before something has put it back to pending
C1_ClaimsDisjoint ==
  [][\A w \in Workers : \A s \in Slots :
       Handed(w, s) =>
         LET j == tasks'[w][s].job IN
         /\ jobs[j].status = StatusPending
         /\ jobs'[j].status = StatusRunning
         /\ jobs'[j].claimed_by = w
         /\ \A w2 \in Workers : \A s2 \in Slots :
              (<<w2, s2>> # <<w, s>> /\ Handed(w2, s2))
                => tasks'[w2][s2].job # j]_vars

\* two workers hold different jobs that were both due in the same tick
C1_Witness ==
  \E w1, w2 \in Workers :
    /\ w1 # w2
    /\ tasks[w1][1].pc # "free" /\ tasks[w2][1].pc # "free"
    /\ tasks[w1][1].job # tasks[w2][1].job
    /\ jobs[tasks[w1][1].job].claimed_by = w1
    /\ jobs[tasks[w2][1].job].claimed_by = w2
    /\ jobs[tasks[w1][1].job].claimed_at = jobs[tasks[w2][1].job].claimed_at

\* C2: at most one execution of a job ends with HTTP 200 followed by a
\* Complete that the store applied
C2_AtMostOneSuccess == \A j \in JobIds : hist.successes[j] <= 1

\* C3: a job in a terminal status keeps that status in every step
C3_TerminalAbsorbing ==
  [][\A j \in JobIds :
       jobs[j].status \in Terminal => jobs'[j].status = jobs[j].status]_vars

\* the status changes of the job state machine (and the INSERT of a row)
AllowedTransitions ==
  {<<Absent, StatusPending>>, <<StatusPending, StatusRunning>>,
   <<StatusRunning, StatusCompleted>>, <<StatusRunning, StatusFailed>>,
   <<StatusRunning, StatusPending>>, <<StatusPending, StatusCancelled>>}

\* C4: every status change the store applies is a transition of the job
\* state machine; in particular Complete, Fail and Reschedule change only a
\* running row
C4_StateMachineEnforced ==
  [][\A j \in JobIds :
       jobs'[j].status # jobs[j].status
         => <<jobs[j].status, jobs'[j].status>> \in AllowedTransitions]_vars

\* C5: every job has retry_count <= max_retries
C5_RetryCountBounded ==
  \A j \in JobIds :
    jobs[j].status # Absent => jobs[j].retry_count <= jobs[j].max_retries

\* C6: a pending job has claimed_at, claimed_by and heartbeat_at null; a
\* running job has all three set and heartbeat_at >= claimed_at
C6_ClaimFields ==
  \A j \in JobIds :
    /\ jobs[j].status = StatusPending =>
         /\ jobs[j].claimed_at = NULL
         /\ jobs[j].claimed_by = NULL
         /\ jobs[j].heartbeat_at = NULL
    /\ jobs[j].status = StatusRunning =>
         /\ jobs[j].claimed_at # NULL
         /\ jobs[j].claimed_by # NULL
         /\ jobs[j].heartbeat_at # NULL
         /\ jobs[j].heartbeat_at >= jobs[j].claimed_at

\* one job is back in pending after a reset while another is running and
\* has been heartbeaten after its claim
C6_Witness ==
  \E j, k \in JobIds :
    /\ jobs[j].status = StatusPending /\ jobs[j].retry_count > 0
    /\ jobs[k].status = StatusRunning
    /\ jobs[k].heartbeat_at > jobs[k].claimed_at

\* C7 (safety part): no job enters a terminal status a second time
C7_TerminalOnce == \A j \in JobIds : hist.terminated[j] <= 1

\* a cycle of the reaper, and one in which both statements succeeded
ReapCycle == reapNext' # reapNext
ReapCycleOk == ReapCycle /\ budget'.errors = budget.errors

\* a running job whose last heartbeat is reap_interval + heartbeat_timeout old
Overdue(j) ==
  /\ jobs[j].status = StatusRunning
  /\ now - jobs[j].heartbeat_at >= ReapInterval + HeartbeatTimeout

AttemptsUnique ==
  \A a, b \in attempts :
    (a.job_id = b.job_id /\ a.attempt_num = b.attempt_num) => a = b

AttemptsOf(j) == {a \in attempts : a.job_id = j}

OpenFails(w, s, j) ==
  /\ tasks[w][s].pc = "open"
  /\ tasks[w][s].job = j
  /\ procs[w].ctx = "live"
  /\ hist'.open_failed[j] = tasks[w][s].last_beat
  /\ hist'.open_failed[j] # hist.open_failed[j]

Holds(j) == {<<w, s>> \in Workers \X Slots :
               tasks[w][s].pc # "free" /\ tasks[w][s].job = j}

C16_RunSurvivesOpenFailure ==
  [][\A w \in Workers : \A s \in Slots : \A j \in JobIds :
       OpenFails(w, s, j) => tasks'[w][s].pc = "exec"]_vars

\* ------------------------------------------------------------------ C19

\* the jobs a step moves to running, and those it moves there for worker w
Claimed == {j \in JobIds : jobs'[j].status = StatusRunning /\
                           jobs[j].status # StatusRunning}

ClaimedBy(w) == {j \in Claimed : jobs'[j].claimed_by = w}

\* C19: every job a step moves to running was pending with scheduled_at <=
\* now; a caller gets at most its limit (its free slots) of them; and no due
\* pending job that the step leaves behind is scheduled earlier than a job
\* it takes
C19_ClaimsOnlyDue ==
  [][/\ \A j \in Claimed :
          /\ jobs[j].status = StatusPending
          /\ jobs[j].scheduled_at <= now
          /\ \A k \in JobIds \ Claimed :
               (jobs[k].status = StatusPending /\ jobs[k].scheduled_at <= now)
                 => jobs[j].scheduled_at <= jobs[k].scheduled_at
     /\ \A w \in Workers :
          Cardinality(ClaimedBy(w)) <= Concurrency - Cardinality(SlotsInUse(w))
    ]_vars

\* a job that a worker rescheduled with a retry_at has been claimed again,
\* not before that retry_at
C19_Witness ==
  \E j \in JobIds :
    /\ jobs[j].status = StatusRunning
    /\ jobs[j].retry_count >= 1
    /\ jobs[j].last_error \notin {"", "worker timeout"}
    /\ jobs[j].scheduled_at > 0
    /\ jobs[j].claimed_at >= jobs[j].scheduled_at

\* ------------------------------------------------------------------ C17

\* C17: the poll loop never waits for a slot (no claimed job is left without
\* one); a poll claims exactly as many jobs as the worker has free slots, or
\* all due jobs if these are fewer, and starts a task for each in the same
\* step, whatever the tasks already running are doing; and a worker with a
\* free slot can poll whenever a job is due, however long its running jobs
\* take
C17_PollNeverBlocks ==
  /\ [](\A w \in Workers :
          /\ procs[w].backlog = {}
          /\ ( /\ procs[w].ctx = "live"
               /\ Slots \ SlotsInUse(w) # {}
               /\ ClaimEligible(jobs, now) # {}
               /\ budget.claims >= Concurrency ) => ENABLED processBatch(w))
  /\ [][\A w \in Workers :
          ClaimedBy(w) # {} =>
            /\ Cardinality(ClaimedBy(w)) =
                 Min(Concurrency - Cardinality(SlotsInUse(w)),
                     Cardinality(ClaimEligible(jobs, now)))
            /\ \A j \in ClaimedBy(w) :
                 \E s \in Slots : Handed(w, s) /\ tasks'[w][s].job = j
            /\ \A s \in SlotsInUse(w) : tasks'[w][s] = tasks[w][s]]_vars

\* a worker executes a job claimed in an earlier tick and, next to it, a job
\* it claimed later
C17_Witness ==
  \E w \in Workers : \E s1, s2 \in Slots :
    /\ tasks[w][s1].pc = "exec"
    /\ tasks[w][s2].pc # "free"
    /\ tasks[w][s1].job # tasks[w][s2].job
    /\ jobs[tasks[w][s1].job].claimed_by = w
    /\ jobs[tasks[w][s2].job].claimed_by = w
    /\ jobs[tasks[w][s1].job].claimed_at < jobs[tasks[w][s2].job].claimed_at

\* ------------------------------------------------------------------ C14

\* the run in slot s of worker w ends in this step, its execution done
Returns(w, s) == tasks[w][s].pc = "exec" /\ tasks'[w][s].pc = "free"

\* the attempt record of the run in slot s of worker w, after the step
ClosedAttempt(w, s) ==
  CHOOSE a \in attempts' :
    a.job_id = tasks[w][s].job /\ a.attempt_num = AttemptNum(tasks[w][s])

\* C14: a run calls Complete exactly when its execution returned status code
\* 200 and no error (the values its closed attempt carries); for every other
\* result the job is left pending by Reschedule or failed by Fail, with the
\* execution's error as last_error
C14_CompleteIffExactly200 ==
  [][\A w \in Workers : \A s \in Slots :
       Returns(w, s) =>
         LET j == tasks[w][s].job
             a == ClosedAttempt(w, s)
             ok == a.status_code = 200 /\ a.error = ""
         IN /\ a.completed
            /\ ok <=> hist'.successes[j] = hist.successes[j] + 1
            /\ ok => jobs'[j].status = StatusCompleted
            /\ ~ok => /\ jobs'[j].status \in {StatusPending, StatusFailed}
                      /\ jobs'[j].last_error = a.error
                      /\ a.error # ""]_vars

\* an execution answered 204 has been closed and the job is not completed
C14_Witness ==
  \E a \in attempts :
    /\ a.completed
    /\ a.status_code = 204
    /\ a.error = "unexpected status code: 204"
    /\ jobs[a.job_id].status \in {StatusPending, StatusFailed}
    /\ hist.successes[a.job_id] = 0

\* ------------------------------------------------------------------ C13

\* C13: a job created with max_retries = 0 is stored with max_retries = 0
\* and is never retried: it has at most one attempt, and once that attempt
\* is closed with an error the job is failed
C13_ZeroRetriesStored ==
  \A j \in JobIds :
    (hist.requested[j] = 0 /\ jobs[j].status # Absent) =>
      /\ jobs[j].max_retries = 0
      /\ \A a \in AttemptsOf(j) :
           /\ a.attempt_num = 1
           /\ (a.completed /\ a.error # "") => jobs[j].status = StatusFailed

\* ------------------------------------------------------------------ C12

\* C12: without crashes and store errors, a job none of whose executions
\* succeeds is executed at most max_retries + 1 times, under the attempt
\* numbers 1 .. max_retries + 1; its retry_count never grows beyond
\* max_retries; and once failed it carries the error of execution
\* max_retries + 1
C12_RetryExhaustion ==
  \A j \in JobIds :
    (\A a \in AttemptsOf(j) : a.status_code # 200) =>
      LET failures == {a \in AttemptsOf(j) : a.completed} IN
      /\ \A a \in AttemptsOf(j) : a.attempt_num \in 1 .. jobs[j].max_retries + 1
      /\ Cardinality(failures) <= jobs[j].max_retries + 1
      /\ jobs[j].retry_count <= jobs[j].max_retries
      /\ jobs[j].status = StatusFailed =>
           \E a \in failures : /\ a.attempt_num = jobs[j].max_retries + 1
                               /\ a.error = jobs[j].last_error

\* ------------------------------------------------------------------ C18

\* C18: a worker whose context the signal has cancelled claims no job, and
\* every run of it that ends before the process exits (within the 10 s that
\* follow the signal) ends as it would have without the signal: its attempt
\* is closed and its outcome is written by Complete, Reschedule or Fail
C18_GracefulShutdown ==
  [][\A w \in Workers :
       procs[w].ctx = "done" =>
         /\ ClaimedBy(w) = {}
         /\ \A s \in Slots :
              (procs'[w].ctx = "done" /\ Returns(w, s)) =>
                LET j == tasks[w][s].job IN
                /\ ClosedAttempt(w, s).completed
                /\ jobs'[j].status \in
                     {StatusCompleted, StatusPending, StatusFailed}]_vars

\* ------------------------------------------------------------------ C20

\* a cancel request is answered in this step
Cancels == hist'.cancel # hist.cancel

\* C20: a cancel request succeeds exactly when the job is pending and owned
\* by the caller when the store applies it, and then only sets the job's
\* status to cancelled; a request of the owner for a job that is running,
\* completed, failed or cancelled gets JobNotCancellable, and a rejected
\* request changes nothing.  Of a cancel and a claim of the same pending
\* job the first to be applied takes effect and the other does not: no step
\* claims a job that is not pending, and none cancels one that is running
C20_CancelOnlyPending ==
  [][/\ Cancels =>
          LET c == hist'.cancel
              owned == jobs[c.job].user_id = c.user /\
                       jobs[c.job].status # Absent
          IN /\ c.result = "ok" <=>
                  (owned /\ jobs[c.job].status = StatusPending)
             /\ c.result = "ok" =>
                  jobs' = [jobs EXCEPT ![c.job].status = StatusCancelled]
             /\ c.result # "ok" => jobs' = jobs
             /\ (owned /\ jobs[c.job].status \in
                   {StatusRunning, StatusCompleted, StatusFailed,
                    StatusCancelled}) => c.result = "JobNotCancellable"
             /\ Claimed = {}
     /\ \A j \in Claimed : jobs[j].status = StatusPending
     /\ \A j \in JobIds :
          ~(jobs[j].status = StatusRunning /\
            jobs'[j].status = StatusCancelled)
    ]_vars

\* a cancel lost the race against a claim: the owner's request for a job
\* that a worker claimed in the same tick it became due was rejected
C20_Witness ==
  /\ hist.cancel # <<>>
  /\ hist.cancel.result = "JobNotCancellable"
  /\ jobs[hist.cancel.job].user_id = hist.cancel.user
  /\ jobs[hist.cancel.job].status = StatusRunning
  /\ jobs[hist.cancel.job].claimed_at = jobs[hist.cancel.job].scheduled_at
  /\ now = jobs[hist.cancel.job].claimed_at

\* ------------------------------------------------------------------ C30

\* the heartbeat ticker of the run in slot s of worker w fires in this step
Beats(w, s) ==
  /\ tasks[w][s].pc = "exec"
  /\ tasks'[w][s].pc = "exec"
  /\ tasks'[w][s].hb_next # tasks[w][s].hb_next

\* C30: a heartbeat write that the store applies (it returns no error: the
\* task's last_beat moves to now) sets heartbeat_at of its job to now when
\* the job is running and changes nothing when the job is pending,
\* completed, failed or cancelled; either way no other field of the job and
\* no other job changes
C30_HeartbeatOnlyRunning ==
  [][\A w \in Workers : \A s \in Slots :
       Beats(w, s) =>
         LET j == tasks[w][s].job
             applied == tasks'[w][s].last_beat = now
         IN /\ (applied /\ jobs[j].status = StatusRunning) =>
                 jobs' = [jobs EXCEPT ![j].heartbeat_at = now]
            /\ (applied /\ jobs[j].status # StatusRunning) => jobs' = jobs
            /\ ~applied => jobs' = jobs
            /\ \A k \in JobIds :
                 jobs'[k] = [jobs[k] EXCEPT !.heartbeat_at = jobs'[k].heartbeat_at]
    ]_vars

\* a run that outlived its claim has just sent a heartbeat for a job that is
\* no longer running: the write returned no error and left the row alone
C30_Witness ==
  \E w \in Workers : \E s \in Slots :
    /\ tasks[w][s].pc = "exec"
    /\ tasks[w][s].last_beat = now
    /\ tasks[w][s].hb_next = now + 1
    /\ jobs[tasks[w][s].job].status \in
         {StatusPending, StatusCompleted, StatusFailed}
    /\ jobs[tasks[w][s].job].heartbeat_at # now

\* ------------------------------------------------------------------ C28

\* the jobs a reap cycle with cutoff c finds stale, and those it changes
Stale(c) == {j \in JobIds : jobs[j].status = StatusRunning /\
                            jobs[j].heartbeat_at < c}

Changed == {j \in JobIds : jobs'[j] # jobs[j]}

\* C28: a reap cycle with cutoff c changes only running jobs with
\* heartbeat_at < c, at most the limit of them per statement: one with
\* retries left becomes pending with retry_count + 1, last_error "worker
\* timeout" and claim and heartbeat fields cleared; one without becomes
\* failed with last_error "worker timeout: max retries exceeded"; nothing
\* else of a job changes (scheduled_at included), and when neither statement
\* fails and the stale jobs of a kind are within the limit, all of them are
\* changed
C28_ReapFrame ==
  [][ReapCycle =>
       LET c == now - HeartbeatTimeout
           retryable == {j \in Stale(c) :
                           jobs[j].retry_count < jobs[j].max_retries}
           exhausted == Stale(c) \ retryable
       IN /\ Changed \subseteq Stale(c)
          /\ \A j \in Changed \cap retryable :
               jobs'[j] = [jobs[j] EXCEPT
                             !.status = StatusPending,
                             !.retry_count = jobs[j].retry_count + 1,
                             !.last_error = "worker timeout",
                             !.claimed_at = NULL,
                             !.claimed_by = NULL,
                             !.heartbeat_at = NULL]
          /\ \A j \in Changed \cap exhausted :
               jobs'[j] = [jobs[j] EXCEPT
                             !.status = StatusFailed,
                             !.last_error =
                               "worker timeout: max retries exceeded"]
          /\ Cardinality(Changed \cap retryable) <= ReapLimit
          /\ Cardinality(Changed \cap exhausted) <= ReapLimit
          /\ budget'.errors = budget.errors =>
               /\ Cardinality(retryable) <= ReapLimit =>
                    retryable \subseteq Changed
               /\ Cardinality(exhausted) <= ReapLimit =>
                    exhausted \subseteq Changed
    ]_vars

\* the reaper has failed a job that was stale with no retry left, after an
\* earlier reschedule
C28_Witness ==
  \E j \in JobIds :
    /\ jobs[j].status = StatusFailed
    /\ jobs[j].last_error = "worker timeout: max retries exceeded"
    /\ jobs[j].retry_count = jobs[j].max_retries
    /\ jobs[j].claimed_by # NULL
    /\ reapNext = now + ReapInterval

\* the stored jobs of a user that carry a key
Carrying(J, u, key) ==
  {j \in JobIds :
     J[j].status # Absent /\ J[j].user_id = u /\ J[j].idempotency_key = key}

\* C22: of the CreateJob requests that carry the same user and idempotency
\* key, however they interleave, exactly one is answered 201 and stores
\* exactly one job; every other one is answered 400 (DuplicateJob) and
\* stores nothing.  The same key of a different user does not collide: a
\* request is rejected only when its own user already has a job with the key.
C22_OneJobPerUserAndKey ==
  /\ [](\A u \in Callers : \A key \in IdempotencyKeys :
          Cardinality(Carrying(jobs, u, key)) <= 1)
  /\ [][hist'.created # hist.created =>
          LET c == hist'.created
              had == Carrying(jobs, c.user, c.key)
          IN IF had # {}
             THEN c.code = StatusBadRequest /\ jobs' = jobs
             ELSE /\ c.code = StatusCreated
                  /\ Cardinality(Carrying(jobs', c.user, c.key)) = 1
                  /\ \A j \in JobIds \ Carrying(jobs', c.user, c.key) :
                       jobs'[j] = jobs[j]
                  /\ \A j \in Carrying(jobs', c.user, c.key) :
                       jobs'[j].status = StatusPending]_vars

\* a request has been rejected as a duplicate while two users hold a job
\* each under the same key
C22_Witness ==
  /\ hist.created # <<>>
  /\ hist.created.code = StatusBadRequest
  /\ \E key \in IdempotencyKeys :
       \A u \in Callers : Cardinality(Carrying(jobs, u, key)) = 1

\* the tables without job k
Without(J, k) == [J EXCEPT ![k] = AbsentJob]
AttemptsWithout(A, k) == {a \in A : a.job_id # k}

\* C21: whatever GetJob, ListJobs, ListAttempts or CancelJob answers to a
\* caller is exactly what it would answer if a job the caller does not own
\* were not stored at all: GetJob, ListAttempts and CancelJob on that job
\* answer JobNotFound, a page of ListJobs is the page of the table without
\* it, and the request changes no job and no attempt.
C21_ExistenceNotLeaked ==
  [][/\ hist'.read # hist.read /\ hist'.read # <<>> =>
          LET q == hist'.read.query IN
          /\ jobs' = jobs /\ attempts' = attempts
          /\ \A k \in JobIds :
               jobs[k].status # Absent /\ jobs[k].user_id # q.user =>
                 /\ hist'.read.answer =
                      Answer(Without(jobs, k), AttemptsWithout(attempts, k), q)
                 /\ q.op # "ListJobs" /\ q.job = k =>
                      hist'.read.answer = NotFound
     /\ hist'.cancel # hist.cancel /\ hist'.cancel # <<>> =>
          LET c == hist'.cancel IN
          jobs[c.job].status # Absent /\ jobs[c.job].user_id # c.user =>
            /\ c.result = ErrJobNotFound
            /\ c.result = CancelResult(Without(jobs, c.job), c.job, c.user)
            /\ jobs' = jobs /\ attempts' = attempts]_vars

\* a user has just been told JobNotFound for a stored job of another user
\* that has an attempt, while the owner holds that job
C21_Witness ==
  /\ hist.read # <<>>
  /\ hist.read.query.op = "ListAttempts"
  /\ hist.read.answer = NotFound
  /\ jobs[hist.read.query.job].status # Absent
  /\ jobs[hist.read.query.job].user_id # hist.read.query.user
  /\ \E a \in attempts : a.job_id = hist.read.query.job

\* the records of history for job j, and those for one claim of it
ReapedOf(j) ==
  {n \in 1 .. Len(hist.reaped) : hist.reaped[n].job = j}

SameLapse(a, b) ==
  /\ hist.reaped[a].job = hist.reaped[b].job
  /\ hist.reaped[a].claimed_at = hist.reaped[b].claimed_at
  /\ hist.reaped[a].claimed_by = hist.reaped[b].claimed_by
  /\ hist.reaped[a].retry_count = hist.reaped[b].retry_count

\* C29: whatever the reaper replicas do concurrently, each with its own
\* cutoff and with any delay between its two statements, one lapse of a job
\* (one claim whose heartbeat went stale) is acted on by at most one
\* statement of one replica: the job is rescheduled, with retry_count + 1,
\* or failed, never both and never twice, and every statement that acts
\* finds the job running and leaves it pending or failed
C29_OneReaperPerLapse ==
  /\ [](\A a, b \in 1 .. Len(hist.reaped) : SameLapse(a, b) => a = b)
  /\ [][\A r \in Reapers : reapers'[r].pc # reapers[r].pc =>
          \A j \in JobIds : jobs'[j] # jobs[j] =>
            /\ jobs[j].status = StatusRunning
            /\ jobs'[j].status \in {StatusPending, StatusFailed}
            /\ jobs'[j].retry_count =
                 IF jobs'[j].status = StatusPending
                 THEN jobs[j].retry_count + 1 ELSE jobs[j].retry_count]_vars

\* one replica has failed a job whose claim had lapsed while another
\* replica is between its two statements with a cutoff that covers the same
\* lapse
C29_Witness ==
  /\ Len(hist.reaped) = 1
  /\ hist.reaped[1].kind = "failed"
  /\ jobs[hist.reaped[1].job].status = StatusFailed
  /\ \E r \in Reapers :
       /\ r # hist.reaped[1].replica
       /\ reapers[r].pc = "fail"
       /\ jobs[hist.reaped[1].job].heartbeat_at < reapers[r].staleCutoff

\* ------------------------------------------------------------ C23 .. C27

\* the ClaimAndFire call of replica d returns in this step
CallReturns(d) == txs[d].pc # "idle" /\ txs'[d].pc = "idle"

\* the key of the run of schedule s that is due in the stored row
KeyOfRun(s) ==
  "sched:" \o ToString(s) \o ":" \o
    ToString(schedules[s].next_run_at * TickSeconds)

\* the jobs of schedule s that become visible in this step
Fired(s) ==
  {j \in JobIds : jobs[j].status = Absent /\ jobs'[j].status # Absent /\
                  jobs'[j].schedule_id = s}

\* C23: a ClaimAndFire call is all or nothing.  When it commits, every
\* schedule it selected has a pending job for the run that was due (made
\* visible by this commit, or stored before under the same key) and a later
\* next_run_at, with last_run_at the time of the call; when it returns an
\* error, no job and no schedule row has changed; and no step other than a
\* commit makes a job of a schedule visible or changes a next_run_at or
\* last_run_at.
C23_ClaimAndFireAtomic ==
  [][/\ \A d \in Dispatchers : CallReturns(d) =>
          IF hist'.dispatched.committed
          THEN \A s \in Held(txs[d]) :
                 /\ \/ /\ Cardinality(Fired(s)) = 1
                       /\ \A j \in Fired(s) :
                            /\ jobs'[j].status = StatusPending
                            /\ jobs'[j].idempotency_key = KeyOfRun(s)
                            /\ jobs'[j].user_id = schedules[s].user_id
                    \/ /\ Fired(s) = {}
                       /\ Carrying(jobs, schedules[s].user_id,
                                   KeyOfRun(s)) # {}
                 /\ schedules'[s].next_run_at > schedules[s].next_run_at
                 /\ schedules'[s].last_run_at = txs[d].start
          ELSE jobs' = jobs /\ schedules' = schedules
     /\ (\A d \in Dispatchers :
           ~(CallReturns(d) /\ hist'.dispatched.committed)) =>
          \A s \in SchedIds :
            /\ Fired(s) = {}
            /\ schedules[s].user_id # "" =>
                 /\ schedules'[s].next_run_at = schedules[s].next_run_at
                 /\ schedules'[s].last_run_at = schedules[s].last_run_at]_vars

\* one call has returned an error and left its schedule as it was, with no
\* job of it, and a later call has committed a job of another schedule
C23_Witness ==
  /\ hist.dispatched # <<>>
  /\ hist.dispatched.committed
  /\ \E s \in leaked :
       /\ schedules[s].last_run_at = NULL
       /\ \A j \in JobIds : jobs[j].schedule_id # s
  /\ \E j \in JobIds : jobs[j].schedule_id # NULL

\* C24: however the dispatcher replicas interleave, no two jobs of a
\* schedule carry the same key; the key of a fired job is
\* "sched:<schedule id>:<unix seconds>" of the next_run_at the stored row had
\* before the commit advanced it, at most one job becomes visible per
\* schedule and commit, and no two transactions hold the same schedule
C24_OneJobPerTick ==
  /\ [](/\ \A j, k \in JobIds :
            /\ j # k
            /\ jobs[j].schedule_id # NULL
            /\ jobs[j].schedule_id = jobs[k].schedule_id
            => jobs[j].idempotency_key # jobs[k].idempotency_key
        /\ \A d, e \in Dispatchers :
            d # e => Held(txs[d]) \cap Held(txs[e]) = {})
  /\ [][\A s \in SchedIds :
          /\ Cardinality(Fired(s)) <= 1
          /\ \A j \in Fired(s) :
               /\ jobs'[j].idempotency_key = KeyOfRun(s)
               /\ schedules'[s].next_run_at > schedules[s].next_run_at]_vars

\* one replica has committed a job for one run of a schedule, and the
\* other replica is about to commit a job for a later run of the same
\* schedule, under another key
C24_Witness ==
  \E d \in Dispatchers : \E j \in JobIds :
    /\ txs[d].pc = "commit"
    /\ hist.dispatched # <<>>
    /\ hist.dispatched.committed
    /\ hist.dispatched.replica # d
    /\ jobs[j].schedule_id # NULL
    /\ txs[d].inserted[1].schedule_id = jobs[j].schedule_id
    /\ txs[d].inserted[1].idempotency_key # jobs[j].idempotency_key

\* the INSERT of the round replica d is at meets a stored job of the same
\* user with the key of the run
DuplicateFire(d) ==
  /\ txs[d].pc = "fire"
  /\ LET s == txs[d].selected[txs[d].i]
     IN Carrying(jobs, s.row.user_id,
                 "sched:" \o ToString(s.id) \o ":" \o
                   ToString(s.row.next_run_at * TickSeconds)) # {}

\* C25: when the INSERT of a round fails with a unique violation and no
\* other error occurs, the call goes on: the schedule gets its UPDATE, no
\* job is inserted for it, and the call is still on its way to the commit
C25_DuplicateStillAdvances ==
  [][\A d \in Dispatchers :
       /\ DuplicateFire(d)
       /\ txs'[d] # txs[d]
       /\ budget'.errors = budget.errors
       => /\ txs'[d].pc \in {"fire", "commit"}
          /\ Len(txs'[d].updated) = Len(txs[d].updated) + 1
          /\ Len(txs'[d].inserted) = Len(txs[d].inserted)]_vars

\* C26: a commit leaves next_run_at of every schedule it fired later than it
\* was and not earlier than the time computeNext read, and makes exactly
\* one job of the schedule visible, however many runs were missed
C26_NextRunAdvances ==
  [][\A d \in Dispatchers :
       CallReturns(d) /\ hist'.dispatched.committed =>
         \A n \in 1 .. Len(txs[d].updated) :
           LET s == txs[d].updated[n].id IN
           /\ schedules'[s].next_run_at > schedules[s].next_run_at
           /\ schedules'[s].next_run_at >= txs[d].updated[n].at
           /\ Cardinality(Fired(s)) = 1]_vars

\* a schedule that runs every 30 s, first due at tick 1, was dispatched for
\* the first time at tick 3: one job, with the key of the run of tick 1, and
\* a next_run_at that is not in the past
C26_Witness ==
  \E s \in SchedIds :
    /\ schedules[s].cron_expr = "@every 30s"
    /\ schedules[s].last_run_at = 3
    /\ schedules[s].next_run_at >= 3
    /\ \E j \in JobIds :
         /\ jobs[j].schedule_id = s
         /\ jobs[j].scheduled_at = 3
         /\ jobs[j].idempotency_key =
              "sched:" \o ToString(s) \o ":" \o ToString(TickSeconds)
    /\ Cardinality({j \in JobIds : jobs[j].schedule_id = s}) = 1

\* C27: between a pause and the next resume no job of the schedule is
\* inserted, be it visible or still inside a transaction, and no
\* transaction holds the schedule; a pause or resume that succeeds changes
\* the paused flag of that schedule and nothing else
C27_PausedNeverFires ==
  /\ [](\A s \in SchedIds : schedules[s].paused =>
          \A d \in Dispatchers : s \notin Held(txs[d]))
  /\ [][\A s \in SchedIds :
          /\ schedules[s].paused => Fired(s) = {}
          /\ schedules[s].user_id # "" /\
               schedules'[s].paused # schedules[s].paused =>
               /\ schedules' =
                    [schedules EXCEPT ![s].paused = ~schedules[s].paused]
               /\ jobs' = jobs
               /\ txs' = txs]_vars

\* a schedule was paused before its first run and is still paused two
\* ticks after that run was due, with the run time it had and no job, while
\* another schedule has fired
C27_Witness ==
  \E s \in SchedIds :
    /\ schedules[s].paused
    /\ schedules[s].next_run_at + 2 <= now
    /\ schedules[s].last_run_at = NULL
    /\ \A j \in JobIds : jobs[j].schedule_id # s
    /\ \E j \in JobIds : jobs[j].schedule_id \notin {NULL, s}

\* ------------------------------------------------------------ retry delay

\* retry counts a stored job can have: max_retries is at most 20
MaxRetriesLimit == 20
RetryCounts == 0 .. MaxRetriesLimit

\* values of the backoff column: the two named ones and one that is neither
BackoffValues == {BackoffExponential, BackoffLinear, ""}

\* values rand.Int63n(int64(delay/2)) can return: both ends of its range,
\* their neighbours and the middle
JitterDraws(rc) ==
  {0, 1, JitterMax(rc) \div 2, JitterMax(rc) - 1, JitterMax(rc)}

\* the store and the processes are idle; only functions are applied
InitFunctions ==
  /\ now = 0
  /\ jobs = [j \in JobIds |-> AbsentJob]
  /\ attempts = {}
  /\ tasks = [w \in Workers |-> [s \in Slots |-> NoTask]]
  /\ procs = [w \in Workers |-> NoProc]
  /\ reapNext = MaxTime + 1
  /\ budget = [jobs |-> 0, errors |-> 0, crashes |-> 0, claims |-> 0]
  /\ hist = NoHist
  /\ InitReplicas

\* one call retryDelay(backoff, retryCount) whose random draw is r
applyRetryDelay(backoff, retryCount, r) ==
  /\ hist' = [hist EXCEPT !.computed =
                [fn |-> "retryDelay", backoff |-> backoff,
                 retry_count |-> retryCount, r |-> r,
                 delay |-> retryDelay(backoff, retryCount, r)]]
  /\ UNCHANGED <<now, jobs, attempts, tasks, procs, reapNext, budget,
                 replicas>>

NextRetryDelay ==
  \E backoff \in BackoffValues : \E rc \in RetryCounts :
    \E r \in JitterDraws(rc) : applyRetryDelay(backoff, rc, r)

SpecRetryDelay == InitFunctions /\ [][NextRetryDelay]_vars

\* C31: for every retry_count in 0..20 the delay is 30 s x (retry_count + 1)
\* for linear backoff, lies within a quarter of d = min(30 s x 2^retry_count,
\* 1 h) around d for exponential backoff, is 30 s for any other value, and
\* is positive in every case, so that retry_at is after the current time
C31_RetryDelay ==
  LET c == hist.computed
      secs == (BaseDelayMs \div 1000) * Pow2(c.retry_count)
      d == IF secs >= MaxDelayMs \div 1000 THEN MaxDelayMs ELSE secs * 1000
  IN c # <<>> /\ c.fn = "retryDelay" =>
       /\ c.backoff = "linear" => c.delay = 30000 * (c.retry_count + 1)
       /\ c.backoff = "exponential" =>
            /\ c.delay >= d - d \div 4
            /\ c.delay <= d + d \div 4
       /\ c.backoff \notin {"linear", "exponential"} => c.delay = 30000
       /\ c.delay > 0
       /\ \A t \in RetryAtTicks(c.backoff, c.retry_count, now) : t > now

\* the exponential delay of retry 20 came out above the cap of one hour:
\* the jitter was drawn from the upper half of its range
C31_Witness ==
  LET c == hist.computed
  IN c # <<>> /\ c.fn = "retryDelay" /\ c.backoff = "exponential" /\
       c.retry_count = 20 /\ c.delay > MaxDelayMs

\* the workers that have an execution of job j in flight: a task that was
\* handed the job and has not yet written its outcome and released its slot
InFlight(j) == {w \in Workers : \E s \in Slots : <<w, s>> \in Holds(j)}

\* C32: at any moment at most one worker has an execution of a given job in
\* flight
C32_OneWorkerPerJob ==
  \A j \in JobIds : Cardinality(InFlight(j)) <= 1

\* C33: retry_count is incremented at most once for each claim of a job.
\* A claim is the only step that makes a row running, so this is: every
\* step that raises retry_count raises it by one and takes the row from
\* running to pending, using up the claim the row was under
C33_OneIncrementPerClaim ==
  [][\A j \in JobIds :
       jobs'[j].retry_count # jobs[j].retry_count /\
       jobs[j].status # Absent =>
         /\ jobs'[j].retry_count = jobs[j].retry_count + 1
         /\ jobs[j].status = StatusRunning
         /\ jobs'[j].status = StatusPending]_vars

\* C34: a heartbeat write of worker w for job j changes the row only while
\* the row is claimed by w
C34_HeartbeatProvesOwnership ==
  [][\A w \in Workers : \A s \in Slots :
       Beats(w, s) /\ jobs' # jobs =>
         jobs[tasks[w][s].job].claimed_by = w]_vars

\* C35: once a job is cancelled (a CancelJob call has returned success for
\* it) its status stays cancelled and no run of it starts the HTTP call
C35_CancelledStaysCancelled ==
  [][\A j \in JobIds :
       jobs[j].status = StatusCancelled =>
         /\ jobs'[j].status = StatusCancelled
         /\ \A w \in Workers : \A s \in Slots :
              ~(/\ tasks[w][s].job = j
                /\ tasks[w][s].pc = "open"
                /\ tasks'[w][s].pc = "exec")]_vars

\* ------------------------------------------------------------------ C36

\* a job task of worker w returns in this step
Finishes(w, s) == tasks[w][s].pc # "free" /\ tasks'[w][s].pc = "free"

\* C36: the number of slots of the semaphore in use is the number of job
\* tasks started and not yet finished and is at most the capacity, so it is
\* zero when no job is running; and a step in which job tasks of a worker
\* return gives back exactly one slot for each of them
C36_CapacityAccounting ==
  /\ [](\A w \in Workers :
          /\ procs[w].sem = Cardinality(SlotsInUse(w))
          /\ procs[w].sem <= Concurrency)
  /\ [][\A w \in Workers :
          procs'[w].ctx = "live" /\ (\E s \in Slots : Finishes(w, s)) =>
            procs'[w].sem =
              procs[w].sem - Cardinality({s \in Slots : Finishes(w, s)})]_vars

\* a run of worker w ended because its attempt could not be opened, its job
\* is still running under w's claim, and w has every slot free again
C36_Witness ==
  \E w \in Workers : \E j \in JobIds :
    /\ hist.open_failed[j] # NULL
    /\ jobs[j].status = StatusRunning
    /\ jobs[j].claimed_by = w
    /\ SlotsInUse(w) = {}
    /\ procs[w].sem = 0
    /\ procs[w].ctx = "live"

\* ------------------------------------------------------------- pagination

\* the jobs tables with rows 1 .. n: each row was created by one of the
\* callers for one of two fire times, and may have been completed since
RECURSIVE Tables(_)
Tables(n) ==
  IF n = 0 THEN {[j \in JobIds |-> AbsentJob]}
  ELSE LET created ==
             {Create(T, n, u, "key-" \o ToString(n), at, DefaultMaxRetries,
                     BackoffExponential) :
                T \in Tables(n - 1), u \in Callers, at \in {0, 1}}
       IN created \cup {Complete(T, n) : T \in created}

\* the status filters and page limits of a list request (limit 0: not
\* given)
StatusFilters == {"", StatusPending, StatusCompleted}
LimitInputs == 0 .. NumJobs

\* a store that holds some jobs and is not written any more; nothing runs
InitPages ==
  /\ now = 1
  /\ jobs \in UNION {Tables(n) : n \in 0 .. NumJobs}
  /\ attempts = {}
  /\ tasks = [w \in Workers |-> [s \in Slots |-> NoTask]]
  /\ procs = [w \in Workers |-> NoProc]
  /\ reapNext = MaxTime + 1
  /\ budget = [jobs |-> 0, errors |-> 0, crashes |-> 0, claims |-> 0]
  /\ hist = NoHist
  /\ InitReplicas

\* a client's walk through the list: what it has been given so far (seen),
\* the next_cursor of the last page, and whether that page had none (done)
Walk(user, status, limit, seen, page) ==
  [fn |-> "ListJobs", user |-> user, status |-> status, limit |-> limit,
   seen |-> seen \o [n \in 1 .. Len(page.jobs) |-> page.jobs[n].id],
   cursor |-> page.next_cursor,
   done |-> page.next_cursor = NoCursor]

\* GET /jobs without a cursor
listFirst(user, status, limit) ==
  /\ hist.computed = <<>>
  /\ hist' = [hist EXCEPT !.computed =
                Walk(user, status, limit, <<>>,
                     ListJobs(jobs, user, status, NoCursor, limit))]
  /\ UNCHANGED <<now, jobs, attempts, tasks, procs, reapNext, budget,
                 replicas>>

\* GET /jobs with the next_cursor of the page before
listNext ==
  LET c == hist.computed IN
  /\ c # <<>>
  /\ ~c.done
  /\ hist' = [hist EXCEPT !.computed =
                Walk(c.user, c.status, c.limit, c.seen,
                     ListJobs(jobs, c.user, c.status, c.cursor, c.limit))]
  /\ UNCHANGED <<now, jobs, attempts, tasks, procs, reapNext, budget,
                 replicas>>

NextPages ==
  \/ \E u \in Callers : \E st \in StatusFilters : \E l \in LimitInputs :
       listFirst(u, st, l)
  \/ listNext

SpecPages == InitPages /\ [][NextPages]_vars

\* the jobs of a user that match a status filter
Matching(user, status) ==
  {j \in JobIds : /\ jobs[j].status # Absent
                  /\ jobs[j].user_id = user
                  /\ status = "" \/ jobs[j].status = status}

\* C37: a walk that started without a cursor and followed next_cursor until
\* a page had none has returned every matching job of the user exactly
\* once, in (scheduled_at DESC, id DESC) order
C37_PaginationComplete ==
  LET c == hist.computed IN
  c # <<>> /\ c.done =>
    /\ {c.seen[n] : n \in 1 .. Len(c.seen)} = Matching(c.user, c.status)
    /\ Len(c.seen) = Cardinality(Matching(c.user, c.status))
    /\ \A a, b \in 1 .. Len(c.seen) :
         a < b => Precedes(jobs, c.seen[a], c.seen[b])

\* ------------------------------------------------------------------ C38

\* C38: when a call of ClaimAndFire has returned, its transaction has been
\* committed or rolled back: no schedule is locked by a transaction whose
\* call is over, and a step in which a call returns leaves none of the
\* rows it held locked
C38_TransactionEnded ==
  /\ [](leaked = {})
  /\ [][\A d \in Dispatchers :
          CallReturns(d) => Held(txs[d]) \cap leaked' = {}]_vars

\* ----------------------------------------------------------- computeNext

\* the clock of the calls of computeNext that are examined
MaxCronTime == 6

\* expressions for which cron.ParseStandard returns no error
AcceptedExprs == CronExprs \cup {NeverFires}

\* what CreateSchedule stores as next_run_at for an expression:
\* sched.Next(time.Now())
StoredNextRuns(expr) == {CronNext(expr, t) : t \in 0 .. MaxCronTime}

\* Dispatcher.computeNext is called for a due schedule: it parses the
\* expression, takes the run after the stored next_run_at and reads the
\* clock (tick t; late: past the first instant of that tick)
callComputeNext(expr, nextRunAt, t, late) ==
  /\ IF hist.computed = <<>> THEN TRUE ELSE hist.computed.pc = "done"
  /\ nextRunAt <= t
  /\ hist' = [hist EXCEPT !.computed =
                [fn |-> "computeNext", cron_expr |-> expr,
                 next_run_at |-> nextRunAt, at |-> t, late |-> late,
                 next |-> CronNext(expr, nextRunAt), rounds |-> 0,
                 pc |-> "loop"]]
  /\ UNCHANGED <<now, jobs, attempts, tasks, procs, reapNext, budget,
                 replicas>>

\* one round of the loop: next.Before(now) holds, next = sched.Next(next);
\* rounds is the parity of the rounds made
loopComputeNext ==
  LET c == hist.computed IN
  /\ c # <<>>
  /\ c.pc = "loop"
  /\ Before(c.next, c.at, c.late)
  /\ hist' = [hist EXCEPT !.computed =
                [c EXCEPT !.next = CronNext(c.cron_expr, c.next),
                          !.rounds = 1 - c.rounds]]
  /\ UNCHANGED <<now, jobs, attempts, tasks, procs, reapNext, budget,
                 replicas>>

\* the loop condition is false: return next
returnComputeNext ==
  LET c == hist.computed IN
  /\ c # <<>>
  /\ c.pc = "loop"
  /\ ~Before(c.next, c.at, c.late)
  /\ hist' = [hist EXCEPT !.computed = [c EXCEPT !.pc = "done"]]
  /\ UNCHANGED <<now, jobs, attempts, tasks, procs, reapNext, budget,
                 replicas>>

NextComputeNext ==
  \/ \E expr \in AcceptedExprs : \E nextRunAt \in StoredNextRuns(expr) :
       \E t \in 0 .. MaxCronTime : \E late \in BOOLEAN :
         callComputeNext(expr, nextRunAt, t, late)
  \/ loopComputeNext
  \/ returnComputeNext

\* a call that has started goes on running: the loop and the return are
\* steps of one goroutine
SpecComputeNext ==
  /\ InitFunctions
  /\ [][NextComputeNext]_vars
  /\ WF_vars(loopComputeNext)
  /\ WF_vars(returnComputeNext)

\* a call of computeNext is in its loop, resp. has returned an instant
\* later than the stored next_run_at
Computing == hist.computed # <<>> /\ hist.computed.pc = "loop"

Computed ==
  /\ hist.computed # <<>>
  /\ hist.computed.pc = "done"
  /\ hist.computed.next > hist.computed.next_run_at

\* C39: for every accepted expression and stored next_run_at a call of
\* computeNext returns, and what it returns is later than the old
\* next_run_at
C39_ComputeNextTerminates == Computing ~> Computed

\* ------------------------------------------------------------------ C40

\* the dispatchers under fair scheduling: each replica's ticker goes on
\* firing, and a call of ClaimAndFire that has begun goes on running
SpecDispatchFair ==
  /\ InitDispatch
  /\ [][NextDispatch]_vars
  /\ \A d \in Dispatchers :
       /\ WF_vars(claimSchedules(d))
       /\ WF_vars(\E o \in Outcomes(2) : \E late \in BOOLEAN :
                    fireSchedule(d, o, late))
       /\ WF_vars(\E o \in Outcomes(1) : commitTx(d, o))

\* schedule s is due and not paused
Due(s) ==
  /\ schedules[s].user_id # ""
  /\ ~schedules[s].paused
  /\ schedules[s].next_run_at <= now

\* the last call of ClaimAndFire that returned, returned an error from the
\* round of a schedule other than s, and the jobs table has room for a job
\* of every schedule
OtherFailed(s) ==
  /\ hist.dispatched # <<>>
  /\ ~hist.dispatched.committed
  /\ hist.dispatched.failed \notin {NULL, s}
  /\ \A j \in JobIds : jobs[j].status = Absent
  /\ budget.jobs = 0

\* schedule s has fired (a job of it is in the jobs table) or its owner has
\* paused it
FiredOrPaused(s) ==
  \/ schedules[s].paused
  \/ \E j \in JobIds : jobs[j].schedule_id = s

\* the jobs table of the model has no room left for one job of every
\* schedule, so a dispatch that selects them all cannot be modelled
TableExhausted ==
  Cardinality({j \in JobIds : jobs[j].status = Absent}) < NumSchedules

\* C40: after the firing of one schedule has failed inside ClaimAndFire,
\* every other schedule that is due and not paused is eventually fired,
\* unless its owner pauses it (as long as the modelled jobs table has room)
C40_FailuresIsolated ==
  \A s \in SchedIds :
    (OtherFailed(s) /\ Due(s)) ~> (FiredOrPaused(s) \/ TableExhausted)

====
